---- MODULE Spec2Model ----
(***************************************************************************)
(* Verification model of the nsx-chatbot reasoning and retrieval engine:   *)
(* the bounded retry executor (app/utils/timeout_management.py), the       *)
(* search tools (app/services/nsx_search.py), the FAQ tool                 *)
(* (app/services/faq_search.py) and one turn of ChatHandler.get_response   *)
(* (app/services/chat_handler.py).                                         *)
(*                                                                         *)
(* Texts are sequences of tokens, so that the token count of a text is its *)
(* length.  The tokens are                                                 *)
(*   "w"  an ordinary lower-case word        "W"  the same word, upper case*)
(*   "s"  a blank                            "n"  a line break             *)
(*   "a"  the words "Ação i:"                "t"  "Texto da ação i:"       *)
(*   "T"  "Texto da Ação i:" (capital A)     "F"  the word "Finalizar"     *)
(*   "u"  the word "irrespondível"           "U"  "IRRESPONDÍVEL"          *)
(*   "#"  the character "#"                  "c"  a word of a conclusion   *)
(* and one token for every fixed piece of a template: "P", "A", "X", "O"   *)
(* for the labels "Pensamento i: ", "\nAção i: ", "\nTexto da Ação i: ",    *)
(* "\nObservação i: " of an iteration block, "M" for "\nMensagem: ".       *)
(* Prompt templates are opaque parameterized texts: only the number of     *)
(* tokens they contribute is modelled.                                     *)
(***************************************************************************)
EXTENDS Integers, Sequences, FiniteSets, TLC

VARIABLES
    \* ---- one call of retry_request_with_timeout and of a search tool ----
    tcall,      \* the call: tool, request_method, searches_left, num_docs, bm25_only
    attempts,   \* loop variable of retry_request_with_timeout
    requests,   \* outcome of every HTTP request issued by the retry loop, in order
    rresult,    \* what retry_request_with_timeout returned or raised
    qareq,      \* outcome of the request to the multi-document QA service, if made
    tresult,    \* what the search tool returned or raised
    \* ---- the FAQ lookups of one turn ----
    parallel,   \* the lookups run as concurrent tasks of one fan-out
    used_faq,   \* the list used_faq of the turn
    ftask,      \* every lookup: where it is, its query, candidates and result
    \* ---- one turn of ChatHandler.get_response ----
    cfg,            \* the handler's flags: dev_mode, disable_faq, disable_memory, ...
    user_message,   \* the inbound message
    memory,         \* the stored history of the session
    chat_history,   \* the history fetched for the turn
    pc,             \* where get_response is
    i,              \* iteration of the reasoning loop
    prompt,         \* the running prompt
    step,           \* thought, action_type, action_input, observation of iteration i
    done,           \* the loop ended with a Finalizar action
    answer,         \* the answer of the turn
    debug_string,   \* all reasoning steps
    calls,          \* the service calls of the turn, in order
    result,         \* what get_response returned or raised
    \* ---- one operation on the session memory store ----
    mkind,      \* the MemoryHandler in use: "json" or "redis"
    mdata,      \* the stored fields of every user_id
    mttl,       \* the time to live of every user_id in Redis
    mcall,      \* the operation called: its arguments, the store before, its outcome
    \* ---- one call of search_information_parallel ----
    info_list,          \* arguments["informacoes"]: the descriptions of every item
    remaining_tokens,   \* the tokens left for the results
    max_workers,        \* the size of the thread pool
    futures,            \* every task of flat_list: queued, running or done
    answers,            \* the array called result, filled as the answers are taken
    taken,              \* how many answers the loop over answer_flat_list has taken
    ppc,                \* where search_information_parallel is
    \* ---- turns on one session whose history is summarized ----
    sturn               \* every turn: where get_chat_history is and what it holds

toolVars == <<tcall, attempts, requests, rresult, qareq, tresult>>
faqVars == <<parallel, used_faq, ftask>>

turnVars == <<cfg, user_message, memory, chat_history, pc, i, prompt, step, done, answer,
              debug_string, calls, result>>

storeVars == <<mkind, mdata, mttl, mcall>>

poolVars == <<info_list, remaining_tokens, max_workers, futures, answers, taken, ppc>>

vars == <<toolVars, faqVars, turnVars, storeVars, poolVars, sturn>>

\* what the actions of one part leave alone
notTool == <<faqVars, turnVars, storeVars, poolVars, sturn>>
notFaq == <<toolVars, turnVars, storeVars, poolVars, sturn>>
notTurn == <<toolVars, parallel, ftask, storeVars, poolVars, sturn>>
notStore == <<toolVars, faqVars, turnVars, poolVars, sturn>>
notPool == <<toolVars, faqVars, turnVars, storeVars, sturn>>

----------------------------------------------------------------------------
(* Texts *)

Whitespace == {"s", "n"}

RECURSIVE lstrip(_)
lstrip(text) ==
    IF text # <<>> /\ Head(text) \in Whitespace THEN lstrip(Tail(text)) ELSE text

RECURSIVE rstrip(_)
rstrip(text) ==
    IF text # <<>> /\ text[Len(text)] \in Whitespace
    THEN rstrip(SubSeq(text, 1, Len(text) - 1))
    ELSE text

\* str.strip()
strip(text) == rstrip(lstrip(text))

\* str.lower(), token by token
lower_token(tok) == CASE tok = "W" -> "w" [] tok = "U" -> "u" [] tok = "F" -> "f"
                      [] tok = "T" -> "t" [] OTHER -> tok

lower(text) == [k \in 1..Len(text) |-> lower_token(text[k])]

\* sub in text, for a one-token sub
contains(text, tok) == \E k \in 1..Len(text) : text[k] = tok

Min(x, y) == IF x < y THEN x ELSE y

----------------------------------------------------------------------------
(* Settings and fixed texts *)

\* settings.max_retries
max_retries == 3

\* prompts["pt"]["unanswerable_search"] and prompts["pt"]["answer_not_found"]
unanswerable_search == <<"exhausted">>
answer_not_found == <<"try_again">>

None == [kind |-> "none"]

\* no parallel search and no summarization is going on
PoolIdle ==
    /\ info_list = <<>>
    /\ remaining_tokens = 0
    /\ max_workers = 0
    /\ futures = <<>>
    /\ answers = <<>>
    /\ taken = 0
    /\ ppc = "idle"
    /\ sturn = <<>>

\* no operation on the memory store is going on
StoreIdle ==
    /\ mkind = "none"
    /\ mdata = <<>>
    /\ mttl = <<>>
    /\ mcall = None

\* no turn is going on
TurnIdle ==
    /\ cfg = None
    /\ user_message = <<>>
    /\ memory = None
    /\ chat_history = <<>>
    /\ pc = "idle"
    /\ i = 0
    /\ prompt = <<>>
    /\ step = None
    /\ done = FALSE
    /\ answer = <<>>
    /\ debug_string = <<>>
    /\ calls = <<>>
    /\ result = None

\* no tool call is going on
ToolsIdle ==
    /\ attempts = 0
    /\ requests = <<>>
    /\ rresult = None
    /\ qareq = None
    /\ tresult = None

----------------------------------------------------------------------------
(* Outcomes of the external services *)

\* paragraphs[0] of the documents the search service can rank
DocTexts == {<<"w">>, <<"s", "w", "n">>}

\* lists of ranked documents; the bound is the longest list
MaxDocs == 2

DocLists == UNION {[1..k -> DocTexts] : k \in 0..MaxDocs}

\* a successful search body carries both rankings
SearchBodies == [response_reranker : DocLists, response_reference : DocLists]

\* the body of an error response may or may not be JSON with a "message" field
ErrorBodies == [message : BOOLEAN]

ErrorStatuses == {403, 500}

Responses ==
    [kind : {"response"}, status : {200}, body : SearchBodies]
        \cup [kind : {"response"}, status : ErrorStatuses, body : ErrorBodies]

\* requests.Response.ok
ok(resp) == resp.status < 400

Timeout == [kind |-> "raise", exc |-> "Timeout"]
ConnectionError == [kind |-> "raise", exc |-> "ConnectionError"]
ValueError == [kind |-> "raise", exc |-> "ValueError"]

Raise(e) == [kind |-> "raise", exc |-> e]
Return(text) == [kind |-> "return", text |-> text]

\* answers of the multi-document QA service
PredAnswers == {<<"w">>, <<"W", "w">>, <<"u">>, <<"U">>, <<"w", "U", "w">>}

QAOutcomes ==
    {[kind |-> "error"]}
        \cup [kind : {"response"}, status : {500}, json : BOOLEAN, detail : BOOLEAN]
        \cup [kind : {"response"}, status : {200}, pred_answer : PredAnswers]

----------------------------------------------------------------------------
(* The FAQ tool: FAQSearchTool.search (app/services/faq_search.py), which   *)
(* is also ChatHandler.get_faq_answer (app/services/chat_handler.py)        *)

\* the questions of self.faq[index], in the order of str
Questions == {"q1", "q2", "q3"}

qord(q) == CASE q = "q1" -> 1 [] q = "q2" -> 2 [] q = "q3" -> 3

\* self.faq[index][question]
faq_answer(q) == CASE q = "q1" -> <<"r1">> [] q = "q2" -> <<"r2">> [] q = "q3" -> <<"r3">>

\* "irrespondível"
irrespondivel == <<"u">>

\* settings.max_faq_questions (5) and settings.max_tokens_faq_prompt (3700), scaled
max_faq_questions == 2
max_tokens_faq_prompt == 6

\* get_num_tokens(self.faq_prompt), scaled, and get_num_tokens(question)
faq_prompt_tokens == 2
question_tokens == 1

\* FAQ lookups of one turn
MaxLookups == 2

Tasks == 1..MaxLookups

FaqQueries == {<<"q1">>, <<"w", "w", "w">>}

\* scores of the ranking service, one per question
ScoreLists == [Questions -> {0, 1}]

\* sorted(zip(scores, faq), reverse=True): by score, then by question, descending
sorted_desc(scores) ==
    CHOOSE seq \in [1..Cardinality(Questions) -> Questions] :
        /\ \A a, b \in DOMAIN seq : a # b => seq[a] # seq[b]
        /\ \A a, b \in DOMAIN seq : a < b =>
              \/ scores[seq[a]] > scores[seq[b]]
              \/ scores[seq[a]] = scores[seq[b]] /\ qord(seq[a]) > qord(seq[b])

\* get_top_faq_questions, given the scores
get_top_faq_questions(scores) ==
    SubSeq(sorted_desc(scores), 1, Min(max_faq_questions, Cardinality(Questions)))

in_list(q, list) == \E k \in 1..Len(list) : list[k] = q

RECURSIVE faq_queries(_, _, _)
\* the questions put into the FAQ prompt: not used yet, and fitting the budget
faq_queries(top_questions, used, prompt_size) ==
    IF top_questions = <<>> THEN <<>>
    ELSE LET question == Head(top_questions)
         IN  IF ~in_list(question, used)
                    /\ prompt_size + question_tokens < max_tokens_faq_prompt
             THEN <<question>> \o faq_queries(Tail(top_questions), used,
                                              prompt_size + question_tokens)
             ELSE faq_queries(Tail(top_questions), used, prompt_size)

\* replies of the completion service to the FAQ prompt (stripped)
FaqReplies == {<<"q1">>, <<"q2">>, <<"w", "q1">>, <<"u">>, <<"w">>}

\* the question whose answer is returned for a reply, or "none"
faq_match(response, top_questions) ==
    IF Len(response) = 1 /\ response[1] \in Questions THEN response[1]
    ELSE IF \E k \in 1..Len(top_questions) : contains(response, top_questions[k])
    THEN top_questions[CHOOSE k \in 1..Len(top_questions) :
            /\ contains(response, top_questions[k])
            /\ \A j \in 1..(k - 1) : ~contains(response, top_questions[j])]
    ELSE "none"

IdleTask == [pc |-> "idle", query |-> <<>>, top_questions |-> <<>>,
             queries |-> <<>>, used_at_start |-> <<>>, result |-> None]

FaqIdle ==
    /\ parallel = FALSE
    /\ used_faq = <<>>
    /\ ftask = [t \in Tasks |-> IdleTask]

\* in single-query mode one lookup ends before the next starts
MayStart(t) ==
    /\ ftask[t].pc = "idle"
    /\ parallel \/ \A o \in Tasks : ftask[o].pc # "ranked"

\* search, lines 52-57: the ranking request fails and the tool gives up
FaqRankFails(t) ==
    /\ MayStart(t)
    /\ \E query \in FaqQueries :
        ftask' = [ftask EXCEPT ![t] = [@ EXCEPT !.pc = "done", !.query = query,
                     !.used_at_start = used_faq, !.result = Return(irrespondivel)]]
    /\ UNCHANGED <<parallel, used_faq, notFaq>>

\* search, lines 52-75: the questions are ranked and the FAQ prompt is built
FaqRank(t) ==
    /\ MayStart(t)
    /\ \E query \in FaqQueries, scores \in ScoreLists :
        LET top_questions == get_top_faq_questions(scores)
        IN  ftask' = [ftask EXCEPT ![t] = [@ EXCEPT !.pc = "ranked", !.query = query,
                         !.top_questions = top_questions,
                         !.used_at_start = used_faq,
                         !.queries = faq_queries(top_questions, used_faq,
                                                 faq_prompt_tokens + Len(query))]]
    /\ UNCHANGED <<parallel, used_faq, notFaq>>

\* search, lines 77-95: the completion service replies and the reply is matched
FaqSelect(t) ==
    /\ ftask[t].pc = "ranked"
    /\ \E response \in FaqReplies :
        LET question == faq_match(response, ftask[t].top_questions)
        IN  IF question = "none"
            THEN /\ ftask' = [ftask EXCEPT ![t] = [@ EXCEPT !.pc = "done",
                                 !.result = Return(irrespondivel)]]
                 /\ used_faq' = used_faq
            ELSE /\ ftask' = [ftask EXCEPT ![t] = [@ EXCEPT !.pc = "done",
                                 !.result = Return(faq_answer(question))]]
                 /\ used_faq' = Append(used_faq, question)
    /\ UNCHANGED <<parallel, notFaq>>

\* search, line 79: the completion request fails and the error leaves the tool
FaqSelectFails(t) ==
    /\ ftask[t].pc = "ranked"
    /\ \E e \in {Timeout, Raise("PromptAnswererError")} :
        ftask' = [ftask EXCEPT ![t] = [@ EXCEPT !.pc = "done", !.result = e]]
    /\ UNCHANGED <<parallel, used_faq, notFaq>>

InitFaq ==
    /\ parallel \in BOOLEAN
    /\ used_faq = <<>>
    /\ ftask = [t \in Tasks |-> IdleTask]
    /\ tcall = None
    /\ ToolsIdle
    /\ TurnIdle
    /\ StoreIdle
    /\ PoolIdle

NextFaq ==
    \/ \E t \in Tasks : FaqRankFails(t)
    \/ \E t \in Tasks : FaqRank(t)
    \/ \E t \in Tasks : FaqSelect(t)
    \/ \E t \in Tasks : FaqSelectFails(t)

SpecFaq == InitFaq /\ [][NextFaq]_vars


----------------------------------------------------------------------------
(* retry_request_with_timeout: app/utils/timeout_management.py *)

RequestMethods == {"GET", "POST", "PUT"}

\* request_method == RequestMethod.GET or RequestMethod.POST
ValidMethod(m) == m \in {"GET", "POST"}

\* a response with an error status that is taken for a failed attempt
RetryResponse_retry5xx ==
    /\ rresult = None
    /\ attempts < max_retries
    /\ ValidMethod(tcall.request_method)
    /\ \E resp \in Responses :
        /\ requests' = Append(requests, resp)
        /\ IF resp.status >= 500 /\ attempts < max_retries - 1
           THEN attempts' = attempts + 1 /\ rresult' = rresult
           ELSE attempts' = attempts /\ rresult' = resp
    /\ UNCHANGED <<tcall, qareq, tresult, notTool>>

\* the request of this attempt yields a response: it is returned, whatever its status
RetryResponse ==
    /\ rresult = None
    /\ attempts < max_retries
    /\ ValidMethod(tcall.request_method)
    /\ \E resp \in Responses :
        /\ requests' = Append(requests, resp)
        /\ rresult' = resp
    /\ UNCHANGED <<tcall, attempts, qareq, tresult, notTool>>

\* the timeout is raised one attempt early
RetryTimeout_early ==
    /\ rresult = None
    /\ attempts < max_retries
    /\ ValidMethod(tcall.request_method)
    /\ requests' = Append(requests, [kind |-> "timeout"])
    /\ IF attempts >= max_retries - 2
       THEN rresult' = Timeout /\ attempts' = attempts
       ELSE rresult' = rresult /\ attempts' = attempts + 1
    /\ UNCHANGED <<tcall, qareq, tresult, notTool>>

\* the request of this attempt times out: raise on the last attempt, else continue
RetryTimeout ==
    /\ rresult = None
    /\ attempts < max_retries
    /\ ValidMethod(tcall.request_method)
    /\ requests' = Append(requests, [kind |-> "timeout"])
    /\ IF attempts = max_retries - 1
       THEN rresult' = Timeout /\ attempts' = attempts
       ELSE rresult' = rresult /\ attempts' = attempts + 1
    /\ UNCHANGED <<tcall, qareq, tresult, notTool>>

\* the request of this attempt fails with another transport error: raised at once
RetryError ==
    /\ rresult = None
    /\ attempts < max_retries
    /\ ValidMethod(tcall.request_method)
    /\ requests' = Append(requests, [kind |-> "error"])
    /\ rresult' = ConnectionError
    /\ UNCHANGED <<tcall, attempts, qareq, tresult, notTool>>

\* neither GET nor POST: ValueError, raised by the generic handler, no request made
RetryInvalidMethod ==
    /\ rresult = None
    /\ attempts < max_retries
    /\ ~ValidMethod(tcall.request_method)
    /\ rresult' = ValueError
    /\ UNCHANGED <<tcall, attempts, requests, qareq, tresult, notTool>>

----------------------------------------------------------------------------
(* The search tools: app/services/nsx_search.py *)

RECURSIVE concat_docs(_, _)
\* docs += f"{nsx_docs[doc_idx]['paragraphs'][0]}\n" for the first k documents
concat_docs(nsx_docs, k) ==
    IF k = 0 THEN <<>>
    ELSE concat_docs(nsx_docs, k - 1) \o nsx_docs[k] \o <<"n">>

\* response_reference under bm25_only, response_reranker otherwise
ranked_docs(body, bm25_only) ==
    IF bm25_only THEN body.response_reference ELSE body.response_reranker

\* elif searches_left == 0: unanswerable_search, else: answer_not_found
no_result_sentinel(searches_left) ==
    IF searches_left = 0 THEN unanswerable_search ELSE answer_not_found

\* the error raised for a response with an error status
search_http_error(resp) ==
    IF resp.status = 403 THEN Raise("NSXAuthenticationError")
    ELSE IF resp.body.message THEN Raise("NSXSearchError")
    ELSE Raise("BodyError")

\* NSXSearchTool.search, given the outcome r of retry_request_with_timeout
NSXSearchTool_search(r, searches_left, num_docs, bm25_only) ==
    IF r.kind = "raise" THEN r
    ELSE IF ~ok(r) THEN search_http_error(r)
    ELSE LET nsx_docs == ranked_docs(r.body, bm25_only)
             nsx_docs_len == Len(nsx_docs)
         IN  IF nsx_docs_len > 0
             THEN Return(strip(concat_docs(nsx_docs, Min(num_docs, nsx_docs_len))))
             ELSE Return(no_result_sentinel(searches_left))

\* the marker is looked for in the answer as given, not in its lower-case form
is_unanswerable_case_sensitive(response) == contains(response, "u")

\* "irrespondível" in response.lower()
is_unanswerable(response) == contains(lower(response), "u")

\* NSXSenseSearchTool.answer_from_docs, given the outcome qa of the QA request
answer_from_docs(qa, searches_left) ==
    IF qa.kind = "error" THEN ConnectionError
    ELSE IF qa.status # 200
         THEN IF qa.json THEN Raise("SenseSearchError") ELSE Raise("BodyError")
    ELSE IF is_unanswerable(qa.pred_answer)
         THEN Return(no_result_sentinel(searches_left))
         ELSE Return(qa.pred_answer)

\* NSXSenseSearchTool.search, given the outcomes of the search and QA requests
NSXSenseSearchTool_search(r, qa, searches_left, bm25_only) ==
    IF r.kind = "raise" THEN r
    ELSE IF ~ok(r) THEN search_http_error(r)
    ELSE LET documents == ranked_docs(r.body, bm25_only)
         IN  IF Len(documents) = 0
             THEN Return(no_result_sentinel(searches_left))
             ELSE answer_from_docs(qa, searches_left)

\* searches_left values a caller can pass; the bound is the largest
MaxSearchesLeft == 2

\* settings.num_docs_search
num_docs_search == 3

ToolCalls ==
    [tool : {"none"}, request_method : RequestMethods, searches_left : {0},
     num_docs : {1}, bm25_only : {FALSE}]
        \cup [tool : {"NSX"}, request_method : {"GET"},
              searches_left : -1..MaxSearchesLeft,
              num_docs : {1, num_docs_search}, bm25_only : BOOLEAN]
        \cup [tool : {"SENSE"}, request_method : {"GET"},
              searches_left : -1..MaxSearchesLeft,
              num_docs : {1}, bm25_only : BOOLEAN]

\* NSXSenseSearchTool.search reaches answer_from_docs: documents were retrieved
reaches_answer_from_docs(r, bm25_only) ==
    /\ r.kind = "response"
    /\ ok(r)
    /\ Len(ranked_docs(r.body, bm25_only)) > 0

\* NSXSearchTool.search ends once retry_request_with_timeout has
NSXSearch ==
    /\ tcall.tool = "NSX"
    /\ rresult # None
    /\ tresult = None
    /\ tresult' = NSXSearchTool_search(rresult, tcall.searches_left,
                                       tcall.num_docs, tcall.bm25_only)
    /\ UNCHANGED <<tcall, attempts, requests, rresult, qareq, notTool>>

\* NSXSenseSearchTool.search ends before the QA request: error or no document
NSXSenseSearch ==
    /\ tcall.tool = "SENSE"
    /\ rresult # None
    /\ tresult = None
    /\ ~reaches_answer_from_docs(rresult, tcall.bm25_only)
    /\ tresult' = NSXSenseSearchTool_search(rresult, None, tcall.searches_left,
                                            tcall.bm25_only)
    /\ UNCHANGED <<tcall, attempts, requests, rresult, qareq, notTool>>

\* NSXSenseSearchTool.search posts the documents to the QA service and ends
NSXSenseAnswerFromDocs ==
    /\ tcall.tool = "SENSE"
    /\ rresult # None
    /\ tresult = None
    /\ reaches_answer_from_docs(rresult, tcall.bm25_only)
    /\ \E qa \in QAOutcomes :
        /\ qareq' = qa
        /\ tresult' = NSXSenseSearchTool_search(rresult, qa, tcall.searches_left,
                                                tcall.bm25_only)
    /\ UNCHANGED <<tcall, attempts, requests, rresult, notTool>>

InitTools ==
    /\ tcall \in ToolCalls
    /\ ToolsIdle
    /\ FaqIdle
    /\ TurnIdle
    /\ StoreIdle
    /\ PoolIdle

NextTools ==
    \/ RetryResponse
    \/ RetryTimeout
    \/ RetryError
    \/ RetryInvalidMethod
    \/ NSXSearch
    \/ NSXSenseSearch
    \/ NSXSenseAnswerFromDocs

SpecTools == InitTools /\ [][NextTools]_vars

----------------------------------------------------------------------------
(* One turn of ChatHandler.get_response: app/services/chat_handler.py *)

\* settings.max_num_reasoning (6), settings.max_tokens_prompt (4000) and
\* settings.max_tokens_chat_history (800), scaled
max_num_reasoning == 2
max_tokens_prompt == 26
max_tokens_chat_history == 3

\* "Mensagem ignorada por conter conteúdo ofensivo."
Refusal == <<"refusal">>

\* "Sua mensagem é muito longa para que eu consiga processá-la adequadamente. ..."
TooLong == <<"too_long">>

\* ChatHandler.get_num_tokens
get_num_tokens(text) == Len(text)

\* self.chat_prompt.format(domain=index_domain)
full_chat_prompt == <<"p">>

\* f"{full_chat_prompt}\n{chat_history}\nMensagem: {user_message}\n"
initial_prompt(history, message) ==
    full_chat_prompt \o <<"n">> \o history \o <<"M">> \o message \o <<"n">>

\* the block of an iteration without its observation
iteration_string_without_observation(st) ==
    <<"P">> \o st.thought \o <<"A">> \o st.action_type \o <<"X">>
        \o st.action_input \o <<"n">>

\* f"Pensamento {i}: {thought}\nAção {i}: {action_type}\nTexto da Ação {i}: ..."
iteration_string(st) ==
    <<"P">> \o st.thought \o <<"A">> \o st.action_type \o <<"X">>
        \o st.action_input \o <<"O">> \o st.observation \o <<"n">>

\* self.forced_finish.format(prompt=prompt)
forced_finish_prompt(p) == <<"ff">> \o p

\* debug_string += f"Pensamento {i}: ...\nAção {i}: ...\nTexto da Ação {i}: ...\n"
debug_reasoning(st) ==
    <<"P">> \o st.thought \o <<"A">> \o st.action_type \o <<"X">>
        \o st.action_input \o <<"n">>

\* debug_string += f"Observação {i} ({tool}): {observation}\n"
debug_observation(tool, observation) == <<"O", tool>> \o observation \o <<"n">>

\* debug_string += f"Finalizar Forçado: {answer}\n"
debug_forced(text) == <<"FF">> \o text \o <<"n">>

\* f"{debug_string}\nAnswer: {answer}"
debug_answer(debug, text) == debug \o <<"n", "Answer">> \o text

\* f"Usuário: {user_message}\nAssistente: {answer}\n"
interaction(message, text) == <<"Usr">> \o message \o <<"Ast">> \o text \o <<"n">>

\* f"Resumo de conversas anteriores: {summary}\n"
summary_history(summary) == <<"R">> \o summary \o <<"n">>

occurs_at(text, sep, k) ==
    /\ k + Len(sep) - 1 <= Len(text)
    /\ SubSeq(text, k, k + Len(sep) - 1) = sep

positions(text, sep) == {k \in 1..Len(text) : occurs_at(text, sep, k)}

\* left, right = text.split(sep) raises no error: sep occurs exactly once
splits_in_two(text, sep) == Cardinality(positions(text, sep)) = 1

split_left(text, sep) ==
    SubSeq(text, 1, (CHOOSE k \in positions(text, sep) : TRUE) - 1)

split_right(text, sep) ==
    SubSeq(text, (CHOOSE k \in positions(text, sep) : TRUE) + Len(sep), Len(text))

\* text.split("\n")[0]
first_line(text) ==
    IF positions(text, <<"n">>) = {} THEN text
    ELSE SubSeq(text, 1, (CHOOSE k \in positions(text, <<"n">>) :
                            \A j \in positions(text, <<"n">>) : k <= j) - 1)

\* f"\nAção {i}:" and f"\nTexto da ação {i}:"
action_separator == <<"n", "a">>
action_input_separator == <<"n", "t">>

\* action_type.startswith("Finalizar")
is_finish(action_type) == action_type # <<>> /\ Head(action_type) = "F"

\* texts the completion service generates for a reasoning prompt: a search
\* action, a Finish action, a Finish action whose text has the label of the
\* prompt examples ("Texto da Ação"), and a thought without action
ReasoningTexts ==
    { <<"w", "n", "a", "w", "n", "t", "w">>,
      <<"s", "w", "n", "a", "F", "n", "t", "s", "w", "s">>,
      <<"w", "n", "a", "F", "n", "T", "w">>,
      <<"w">> }

\* texts it generates when asked for the action, and for the action text
ActionTexts == {<<"F", "n", "t", "w", "w">>, <<"w">>}
ActionInputTexts == {<<"w">>, <<"s", "w", "w">>}

\* texts it generates for a summary, and for a forced conclusion
SummaryTexts == {<<"w", "w">>}
ConclusionTexts == {<<"s", "c", "w">>}

\* outcomes of retry_request_with_timeout on the completion endpoint
CompletionOutcomes(texts) ==
    {Timeout} \cup [kind : {"response"}, status : {500}]
        \cup [kind : {"response"}, status : {200}, text : texts]

\* ChatHandler.get_reasoning, given the outcome r of retry_request_with_timeout
get_reasoning(r) ==
    IF r.kind = "raise" THEN r
    ELSE IF ~ok(r) THEN Raise("Exception")
    ELSE Return(strip(r.text))

\* outcomes of the moderation request
ModerationOutcomes ==
    {[kind |-> "error"]}
        \cup [kind : {"response"}, status : {500}]
        \cup [kind : {"response"}, status : {200}, flagged : BOOLEAN]

\* a moderation service that cannot be reached counts as "not harmful"
is_the_message_harmful_unreachable(m) ==
    IF m.kind = "error" THEN [kind |-> "return", value |-> FALSE]
    ELSE IF ~ok(m) THEN Raise("Exception")
    ELSE [kind |-> "return", value |-> m.flagged]

\* a flagged text is let through
is_the_message_harmful_never(m) ==
    IF m.kind = "error" THEN ConnectionError
    ELSE IF ~ok(m) THEN Raise("Exception")
    ELSE [kind |-> "return", value |-> FALSE]

\* a response that is not ok counts as "not harmful"
is_the_message_harmful_unless_failed(m) ==
    IF m.kind = "error" THEN ConnectionError
    ELSE IF ~ok(m) THEN [kind |-> "return", value |-> FALSE]
    ELSE [kind |-> "return", value |-> m.flagged]

\* ChatHandler.is_the_message_harmful, given the outcome m of requests.post
is_the_message_harmful(m) ==
    IF m.kind = "error" THEN ConnectionError
    ELSE IF ~ok(m) THEN Raise("Exception")
    ELSE [kind |-> "return", value |-> m.flagged]

\* the flags a handler is built with
PlainConfig ==
    [dev_mode |-> FALSE, disable_faq |-> TRUE, disable_memory |-> FALSE,
     use_nsx_sense |-> FALSE, return_debug |-> FALSE, model |-> "gpt-3.5-turbo"]

ConfigVariants ==
    { [PlainConfig EXCEPT !.disable_faq = FALSE],
      [PlainConfig EXCEPT !.use_nsx_sense = TRUE],
      [PlainConfig EXCEPT !.disable_faq = FALSE, !.use_nsx_sense = TRUE],
      [PlainConfig EXCEPT !.return_debug = TRUE],
      [PlainConfig EXCEPT !.disable_memory = TRUE] }

DevConfig == [PlainConfig EXCEPT !.dev_mode = TRUE, !.disable_memory = TRUE]

\* a message as long as the whole prompt budget, and one that fills it exactly
LongMessage == [k \in 1..max_tokens_prompt |-> "w"]
FillingMessage == [k \in 1..(max_tokens_prompt - 4) |-> "w"]

DevMessages == {<<"#", "model">>, <<"#", "gpt-4">>, <<"#", "nsx_sense">>, <<"#", "w">>}

\* a message after which one short iteration block fills the budget exactly
BoundaryMessage == [k \in 1..(max_tokens_prompt - 13) |-> "w"]

Messages == {<<"w">>, <<"#", "w">>, LongMessage, FillingMessage, BoundaryMessage}

\* stored histories: none, a short one, one above max_tokens_chat_history
Stored(text) == [kind |-> "stored", history |-> text]
Memories == {None, Stored(<<"w">>), Stored([k \in 1..(max_tokens_chat_history + 1) |-> "w"])}

\* the turns handled: the plain handler on every message and stored history,
\* its variants on a short message, the dev-mode handler on commands
Turns ==
    [cfg : {PlainConfig}, message : Messages \ {<<"#", "w">>}, memory : Memories]
        \cup [cfg : {PlainConfig}, message : {<<"#", "w">>}, memory : {None}]
        \cup [cfg : ConfigVariants, message : {<<"w">>}, memory : {None}]
        \cup [cfg : {DevConfig}, message : DevMessages \cup {<<"w">>}, memory : {None}]

EmptyStep == [thought |-> <<>>, action_type |-> <<>>, action_text |-> <<>>,
              action_input |-> <<>>, observation |-> <<>>, tool |-> "none"]

\* a call to an external service, and the text a completion call returned
Call(service, purpose) == [service |-> service, purpose |-> purpose, reply |-> None]
Completion(purpose, reply) == [service |-> "completion", purpose |-> purpose, reply |-> reply]
Moderation(purpose, m) == [service |-> "moderation", purpose |-> purpose, reply |-> m]

\* a request to the search service: what came back is the exception raised
\* or the status of the response
Search(purpose, r) ==
    [service |-> "nsx_search", purpose |-> purpose,
     reply |-> IF r.kind = "raise" THEN r ELSE [kind |-> "response", status |-> r.status]]

\* the ranking request of the FAQ lookup: it fails or gives the scores
Score(f) ==
    [service |-> "nsx_score", purpose |-> "faq",
     reply |-> IF f.rank = "fails" THEN Raise("Exception")
               ELSE [kind |-> "scores", scores |-> f.scores]]

Log(call) == calls' = Append(calls, call)

\* get_response ends
Ends(r) == pc' = "end" /\ result' = r

\* settings.available_models
available_models == {"gpt-3.5-turbo", "gpt-3.5-turbo-azure", "gpt-4"}

\* dev_mode_action: the reply and the handler's flags afterwards
dev_mode_action(message, c) ==
    IF contains(message, "model")
    THEN [reply |-> Return(<<"models">>), cfg |-> c]
    ELSE IF Len(message) = 2 /\ message[2] \in available_models
    THEN [reply |-> Return(<<"using", message[2]>>),
          cfg |-> [c EXCEPT !.model = message[2]]]
    ELSE IF contains(message, "nsx_sense")
    THEN [reply |-> Return(<<"sense", IF c.use_nsx_sense THEN "disabled" ELSE "enabled">>),
          cfg |-> [c EXCEPT !.use_nsx_sense = ~c.use_nsx_sense]]
    ELSE [reply |-> [kind |-> "return_none"], cfg |-> c]

\* lines 155-156: a dev-mode command is answered without any other step
DevModeAction ==
    /\ pc = "start"
    /\ user_message[1] = "#" /\ cfg.dev_mode
    /\ cfg' = dev_mode_action(user_message, cfg).cfg
    /\ Ends(dev_mode_action(user_message, cfg).reply)
    /\ UNCHANGED <<user_message, memory, chat_history, i, prompt, step, done, answer,
                   debug_string, calls, used_faq, notTurn>>

\* lines 170-177: the inbound message is moderated
ModerateMessage ==
    /\ pc = "start"
    /\ ~(user_message[1] = "#" /\ cfg.dev_mode)
    /\ \E m \in ModerationOutcomes :
        LET harmful == is_the_message_harmful(m)
        IN  /\ Log(Moderation("message", m))
            /\ IF harmful.kind = "raise" THEN Ends(harmful)
               ELSE IF harmful.value THEN Ends(Return(Refusal))
               ELSE pc' = "memory" /\ result' = result
    /\ UNCHANGED <<cfg, user_message, memory, chat_history, i, prompt, step, done,
                   answer, debug_string, used_faq, notTurn>>

\* lines 179-185 without memory
SkipChatHistory ==
    /\ pc = "memory"
    /\ cfg.disable_memory
    /\ chat_history' = <<>>
    /\ pc' = "prompt"
    /\ UNCHANGED <<cfg, user_message, memory, i, prompt, step, done, answer,
                   debug_string, calls, result, used_faq, notTurn>>

\* get_chat_history: the store fails
GetChatHistoryFails ==
    /\ pc = "memory"
    /\ ~cfg.disable_memory
    /\ Log(Call("memory", "retrieve_history"))
    /\ Ends(Raise("MemoryHandlerError"))
    /\ UNCHANGED <<cfg, user_message, memory, chat_history, i, prompt, step, done,
                   answer, debug_string, used_faq, notTurn>>

\* get_chat_history: no history, or one within max_tokens_chat_history
GetChatHistory ==
    /\ pc = "memory"
    /\ ~cfg.disable_memory
    /\ IF memory = None THEN TRUE
       ELSE get_num_tokens(memory.history) <= max_tokens_chat_history
    /\ Log(Call("memory", "retrieve_history"))
    /\ chat_history' = IF memory = None THEN <<>> ELSE memory.history
    /\ pc' = "prompt"
    /\ UNCHANGED <<cfg, user_message, memory, i, prompt, step, done, answer,
                   debug_string, result, used_faq, notTurn>>

\* the history is cleared before the summary is asked for
SummarizeChatHistory_clears_first ==
    /\ pc = "memory"
    /\ ~cfg.disable_memory
    /\ memory # None
    /\ get_num_tokens(memory.history) > max_tokens_chat_history
    /\ \E r \in CompletionOutcomes(SummaryTexts) :
        LET summary == get_reasoning(r)
        IN  /\ calls' = calls \o <<Call("memory", "retrieve_history"),
                                    Completion("summary", summary)>>
            /\ IF summary.kind = "raise"
               THEN Ends(summary) /\ memory' = None /\ UNCHANGED chat_history
               ELSE /\ memory' = Stored(summary_history(summary.text))
                    /\ chat_history' = memory.history
                    /\ pc' = "prompt"
                    /\ result' = result
    /\ UNCHANGED <<cfg, user_message, i, prompt, step, done, answer,
                   debug_string, used_faq, notTurn>>

\* get_chat_history: the history is above max_tokens_chat_history and is summarized
SummarizeChatHistory ==
    /\ pc = "memory"
    /\ ~cfg.disable_memory
    /\ memory # None
    /\ get_num_tokens(memory.history) > max_tokens_chat_history
    /\ \E r \in CompletionOutcomes(SummaryTexts) :
        LET summary == get_reasoning(r)
        IN  /\ calls' = calls \o <<Call("memory", "retrieve_history"),
                                    Completion("summary", summary)>>
            /\ IF summary.kind = "raise"
               THEN Ends(summary) /\ UNCHANGED <<memory, chat_history>>
               ELSE /\ memory' = Stored(summary_history(summary.text))
                    /\ chat_history' = memory.history
                    /\ pc' = "prompt"
                    /\ result' = result
    /\ UNCHANGED <<cfg, user_message, i, prompt, step, done, answer,
                   debug_string, used_faq, notTurn>>

\* the guard lets a prompt of one token above the budget through
too_long_above(first) == get_num_tokens(first) > max_tokens_prompt + 1

\* line 194: self.get_num_tokens(prompt) > settings.max_tokens_prompt
too_long(first) == get_num_tokens(first) > max_tokens_prompt

\* lines 187-195: the prompt is built and checked against max_tokens_prompt
BuildPrompt ==
    /\ pc = "prompt"
    /\ Log(Call("db", "get_index_information"))
    /\ LET first == initial_prompt(chat_history, user_message)
       IN  /\ prompt' = first
           /\ IF too_long(first)
              THEN Ends(Return(TooLong)) /\ i' = i
              ELSE pc' = "reason" /\ i' = 1 /\ result' = result
    /\ UNCHANGED <<cfg, user_message, memory, chat_history, step, done, answer,
                   debug_string, used_faq, notTurn>>

\* lines 202-230: thought, action type and action text of one iteration, given
\* the outcomes r1, r2, r3 of the completion requests it may send
reasoning_step(r1, r2, r3) ==
    LET reasoning == get_reasoning(r1)
    IN  IF reasoning.kind = "raise"
        THEN [result |-> reasoning, calls |-> <<Completion("reason", reasoning)>>]
        ELSE
        LET has_action == splits_in_two(reasoning.text, action_separator)
            thought == IF has_action THEN split_left(reasoning.text, action_separator)
                       ELSE first_line(reasoning.text)
            action == IF has_action
                      THEN Return(split_right(reasoning.text, action_separator))
                      ELSE get_reasoning(r2)
            calls2 == <<Completion("reason", reasoning)>>
                        \o (IF has_action THEN <<>> ELSE <<Completion("action", action)>>)
        IN  IF action.kind = "raise"
            THEN [result |-> action, calls |-> calls2]
            ELSE
            LET has_input == splits_in_two(action.text, action_input_separator)
                action_type == IF has_input
                               THEN split_left(action.text, action_input_separator)
                               ELSE first_line(action.text)
                action_input == IF has_input
                                THEN Return(split_right(action.text, action_input_separator))
                                ELSE get_reasoning(r3)
                calls3 == calls2 \o (IF has_input THEN <<>>
                                     ELSE <<Completion("action_input", action_input)>>)
            IN  IF action_input.kind = "raise"
                THEN [result |-> action_input, calls |-> calls3]
                ELSE [result |-> [kind |-> "step",
                                  step |-> [thought |-> strip(thought),
                                            action_type |-> strip(action_type),
                                            action_text |-> action_input.text,
                                            action_input |-> strip(action_input.text),
                                            observation |-> <<>>,
                                            tool |-> "none"]],
                      calls |-> calls3]

\* the answer taken from a Finish action is its action type instead of its text
finish_answer_action_type(st) == st.action_type

\* line 241: answer = action_input
finish_answer(st) == st.action_input

\* lines 200-242: one iteration reasons, and ends the loop on a Finish action
Reason ==
    /\ pc = "reason"
    /\ \E r1 \in CompletionOutcomes(ReasoningTexts),
          r2 \in CompletionOutcomes(ActionTexts),
          r3 \in CompletionOutcomes(ActionInputTexts) :
        LET r == reasoning_step(r1, r2, r3)
        IN  /\ calls' = calls \o r.calls
            /\ IF r.result.kind = "raise"
               THEN Ends(r.result) /\ UNCHANGED <<step, done, answer, debug_string>>
               ELSE /\ step' = r.result.step
                    /\ debug_string' = debug_string \o debug_reasoning(r.result.step)
                    /\ result' = result
                    /\ IF is_finish(r.result.step.action_type)
                       THEN /\ done' = TRUE
                            /\ answer' = finish_answer(r.result.step)
                            /\ pc' = "moderate"
                       ELSE pc' = "observe" /\ UNCHANGED <<done, answer>>
    /\ UNCHANGED <<cfg, user_message, memory, chat_history, i, prompt, used_faq, notTurn>>

\* outcomes of the FAQ lookup of an observation
ObservationScores == {[q \in Questions |-> 1]}

FaqOutcomes ==
    {[rank |-> "fails"]}
        \cup [rank : {"ok"}, scores : ObservationScores,
              reply : {Timeout, [kind |-> "response", status |-> 200, text |-> <<"q2">>],
                       [kind |-> "response", status |-> 200, text |-> <<"w">>]}]

\* outcomes of the document search of an observation
ObservationDocLists == {<<>>, << <<"w", "w">>, <<"w">> >>}

ObservationSearchOutcomes ==
    {Timeout}
        \cup [kind : {"response"}, status : ErrorStatuses, body : ErrorBodies]
        \cup [kind : {"response"}, status : {200},
              body : [response_reranker : ObservationDocLists,
                      response_reference : {<<>>}]]

\* outcomes of the multi-document QA request of an observation
ObservationQAOutcomes ==
    {[kind |-> "error"]}
        \cup [kind : {"response"}, status : {500}, msg : BOOLEAN]
        \cup [kind : {"response"}, status : {200}, pred_answer : {<<"w">>, <<"U">>}]

\* the failure of the ranking request ends the lookup
get_faq_answer_propagates(f, query, used) ==
    [result |-> Raise("Exception"), used |-> used, calls |-> <<Score(f)>>]

\* ChatHandler.get_faq_answer, given the outcome f of its two requests
get_faq_answer(f, query, used) ==
    IF f.rank = "fails"
    THEN [result |-> Return(irrespondivel), used |-> used,
          calls |-> <<Score(f)>>]
    ELSE
    LET top_questions == get_top_faq_questions(f.scores)
        response == get_reasoning(f.reply)
        made == <<Score(f), Completion("faq", response)>>
    IN  IF response.kind = "raise"
        THEN [result |-> response, used |-> used, calls |-> made]
        ELSE LET question == faq_match(response.text, top_questions)
             IN  IF question = "none"
                 THEN [result |-> Return(irrespondivel), used |-> used, calls |-> made]
                 ELSE [result |-> Return(faq_answer(question)),
                       used |-> Append(used, question), calls |-> made]

\* raise Exception(f"Error in NSX: {response.json()['message']}")
nsx_error(resp) == IF resp.body.message THEN Raise("Exception") ELSE Raise("BodyError")

\* a search that times out counts as a search without documents
get_nsx_answer_absorbs(r, searches_left, num_docs) ==
    IF r.kind = "raise"
    THEN [result |-> Return(no_result_sentinel(searches_left)),
          calls |-> <<Search("search", r)>>]
    ELSE [calls |-> <<Search("search", r)>>,
          result |->
            IF ~ok(r) THEN nsx_error(r)
            ELSE LET response_len == Len(r.body.response_reranker)
                 IN  IF response_len > 0
                     THEN Return(strip(concat_docs(r.body.response_reranker,
                                                   Min(num_docs, response_len))))
                     ELSE Return(no_result_sentinel(searches_left))]

\* ChatHandler.get_nsx_answer, given the outcome r of retry_request_with_timeout
get_nsx_answer(r, searches_left, num_docs) ==
    IF r.kind = "raise" THEN [result |-> r, calls |-> <<Search("search", r)>>]
    ELSE [calls |-> <<Search("search", r)>>,
          result |->
            IF ~ok(r) THEN nsx_error(r)
            ELSE LET response_len == Len(r.body.response_reranker)
                 IN  IF response_len > 0
                     THEN Return(strip(concat_docs(r.body.response_reranker,
                                                   Min(num_docs, response_len))))
                     ELSE Return(no_result_sentinel(searches_left))]

\* ChatHandler.answer_from_docs, given the outcome qa of requests.post
ChatHandler_answer_from_docs(qa, searches_left) ==
    IF qa.kind = "error" THEN ConnectionError
    ELSE IF ~ok(qa) THEN (IF qa.msg THEN Raise("Exception") ELSE Raise("BodyError"))
    ELSE IF is_unanswerable(qa.pred_answer) THEN Return(no_result_sentinel(searches_left))
    ELSE Return(qa.pred_answer)

\* ChatHandler.get_nsx_sense_answer, given the outcomes of its two requests
get_nsx_sense_answer(r, qa, searches_left) ==
    IF r.kind = "raise" THEN [result |-> r, calls |-> <<Search("sense", r)>>]
    ELSE IF ~ok(r) THEN [result |-> nsx_error(r), calls |-> <<Search("sense", r)>>]
    ELSE IF Len(r.body.response_reranker) = 0
    THEN [result |-> Return(no_result_sentinel(searches_left)),
          calls |-> <<Search("sense", r)>>]
    ELSE [result |-> ChatHandler_answer_from_docs(qa, searches_left),
          calls |-> <<Search("sense", r), Call("multidocqa", "answer_from_docs")>>]

\* the search goes on after the FAQ has answered
get_observation_search_anyway(c, query, used, searches_left, f, r, qa) ==
    LET faq == IF c.disable_faq
               THEN [result |-> Return(irrespondivel), used |-> used, calls |-> <<>>]
               ELSE get_faq_answer(f, query, used)
        found == IF c.use_nsx_sense
                 THEN get_nsx_sense_answer(r, qa, searches_left)
                 ELSE get_nsx_answer(r, searches_left, 1)
    IN  IF faq.result.kind = "raise"
        THEN [result |-> faq.result, tool |-> "FAQ", used |-> faq.used, calls |-> faq.calls]
        ELSE [result |-> found.result,
              tool |-> IF c.use_nsx_sense THEN "SENSE" ELSE "NSX",
              used |-> faq.used,
              calls |-> faq.calls \o found.calls]

\* ChatHandler.get_observation
get_observation(c, query, used, searches_left, f, r, qa) ==
    LET faq == IF c.disable_faq
               THEN [result |-> Return(irrespondivel), used |-> used, calls |-> <<>>]
               ELSE get_faq_answer(f, query, used)
    IN  IF faq.result.kind = "raise" \/ faq.result.text # irrespondivel
        THEN [result |-> faq.result, tool |-> "FAQ", used |-> faq.used, calls |-> faq.calls]
        ELSE LET found == IF c.use_nsx_sense
                          THEN get_nsx_sense_answer(r, qa, searches_left)
                          ELSE get_nsx_answer(r, searches_left, 1)
             IN  [result |-> found.result,
                  tool |-> IF c.use_nsx_sense THEN "SENSE" ELSE "NSX",
                  used |-> faq.used,
                  calls |-> faq.calls \o found.calls]

\* lines 243-258: an action that is not Finish gets an observation
Observe ==
    /\ pc = "observe"
    /\ \E f \in FaqOutcomes, r \in ObservationSearchOutcomes, qa \in ObservationQAOutcomes :
        LET searches_left == max_num_reasoning - i - 1
            obs == get_observation(cfg, step.action_input, used_faq, searches_left, f, r, qa)
        IN  /\ calls' = calls \o obs.calls
            /\ used_faq' = obs.used
            /\ IF obs.result.kind = "raise"
               THEN Ends(obs.result) /\ UNCHANGED <<step, debug_string>>
               ELSE /\ step' = [step EXCEPT !.observation = obs.result.text,
                                            !.tool = obs.tool]
                    /\ debug_string' = debug_string
                            \o debug_observation(obs.tool, obs.result.text)
                    /\ pc' = "observed"
                    /\ result' = result
    /\ UNCHANGED <<cfg, user_message, memory, chat_history, i, prompt, done, answer,
                   notTurn>>

\* the block is dropped as soon as it reaches the budget
over_budget_at_ceiling(total_tokens) == total_tokens >= max_tokens_prompt

\* a block of one token above the budget is kept
over_budget_above(total_tokens) == total_tokens > max_tokens_prompt + 1

\* line 265: total_tokens > settings.max_tokens_prompt
over_budget(total_tokens) == total_tokens > max_tokens_prompt

\* the loop goes on while the block fits, whatever the iteration
BudgetCheck_uncapped ==
    /\ pc = "observed"
    /\ LET total_tokens == get_num_tokens(prompt \o iteration_string(step))
       IN  IF over_budget(total_tokens)
           THEN pc' = "forced" /\ UNCHANGED <<prompt, i>>
           ELSE /\ prompt' = prompt \o iteration_string(step)
                /\ pc' = "reason" /\ i' = i + 1
    /\ UNCHANGED <<cfg, user_message, memory, chat_history, step, done, answer,
                   debug_string, calls, result, used_faq, notTurn>>

\* lines 260-269 and the loop header: the block is kept while it fits the budget
BudgetCheck ==
    /\ pc = "observed"
    /\ LET total_tokens == get_num_tokens(prompt \o iteration_string(step))
       IN  IF over_budget(total_tokens)
           THEN pc' = "forced" /\ UNCHANGED <<prompt, i>>
           ELSE /\ prompt' = prompt \o iteration_string(step)
                /\ IF i < max_num_reasoning
                   THEN pc' = "reason" /\ i' = i + 1
                   ELSE pc' = "forced" /\ i' = i
    /\ UNCHANGED <<cfg, user_message, memory, chat_history, step, done, answer,
                   debug_string, calls, result, used_faq, notTurn>>

\* the forced conclusion is asked for again while its reply is short
ForcedFinish_again ==
    /\ pc = "forced"
    /\ ~done
    /\ \E r \in CompletionOutcomes(ConclusionTexts) :
        LET forced == get_reasoning(r)
        IN  /\ Log(Completion("forced", forced))
            /\ IF forced.kind = "raise"
               THEN Ends(forced) /\ UNCHANGED <<answer, debug_string>>
               ELSE /\ answer' = forced.text
                    /\ debug_string' = debug_string \o debug_forced(forced.text)
                    /\ pc' = IF Len(forced.text) < 3 THEN "forced" ELSE "moderate"
                    /\ result' = result
    /\ UNCHANGED <<cfg, user_message, memory, chat_history, i, prompt, step, done,
                   used_faq, notTurn>>

\* lines 271-276: without a Finish action the conclusion is forced
ForcedFinish ==
    /\ pc = "forced"
    /\ ~done
    /\ \E r \in CompletionOutcomes(ConclusionTexts) :
        LET forced == get_reasoning(r)
        IN  /\ Log(Completion("forced", forced))
            /\ IF forced.kind = "raise"
               THEN Ends(forced) /\ UNCHANGED <<answer, debug_string>>
               ELSE /\ answer' = forced.text
                    /\ debug_string' = debug_string \o debug_forced(forced.text)
                    /\ pc' = "moderate"
                    /\ result' = result
    /\ UNCHANGED <<cfg, user_message, memory, chat_history, i, prompt, step, done,
                   used_faq, notTurn>>

\* a flagged answer is saved to the history before the refusal is returned
ModerateAnswer_after_save ==
    /\ pc = "moderate"
    /\ \E m \in ModerationOutcomes :
        LET harmful == is_the_message_harmful(m)
        IN  IF harmful.kind = "raise"
            THEN Log(Moderation("answer", m)) /\ Ends(harmful) /\ memory' = memory
            ELSE IF harmful.value /\ ~cfg.disable_memory
            THEN /\ calls' = calls \o <<Moderation("answer", m),
                                        Call("memory", "save_history")>>
                 /\ memory' = Stored(interaction(user_message, answer))
                 /\ Ends(Return(Refusal))
            ELSE IF harmful.value
            THEN Log(Moderation("answer", m)) /\ Ends(Return(Refusal)) /\ memory' = memory
            ELSE /\ Log(Moderation("answer", m))
                 /\ pc' = "save" /\ result' = result /\ memory' = memory
    /\ UNCHANGED <<cfg, user_message, chat_history, i, prompt, step, done,
                   answer, debug_string, used_faq, notTurn>>

\* lines 278-292: the answer is moderated
ModerateAnswer ==
    /\ pc = "moderate"
    /\ \E m \in ModerationOutcomes :
        LET harmful == is_the_message_harmful(m)
        IN  /\ Log(Moderation("answer", m))
            /\ IF harmful.kind = "raise" THEN Ends(harmful)
               ELSE IF harmful.value THEN Ends(Return(Refusal))
               ELSE pc' = "save" /\ result' = result
    /\ UNCHANGED <<cfg, user_message, memory, chat_history, i, prompt, step, done,
                   answer, debug_string, used_faq, notTurn>>

\* line 299: the store fails while the interaction is saved
SaveHistoryFails ==
    /\ pc = "save"
    /\ ~cfg.disable_memory
    /\ Log(Call("memory", "save_history"))
    /\ Ends(Raise("MemoryHandlerError"))
    /\ UNCHANGED <<cfg, user_message, memory, chat_history, i, prompt, step, done,
                   answer, debug_string, used_faq, notTurn>>

\* lines 370-374
returned_text(c, debug, text) ==
    IF ~c.return_debug THEN text ELSE debug_answer(debug, text)

\* lines 296-374: the interaction is saved and logged, and the answer returned
SaveAndReturn ==
    /\ pc = "save"
    /\ IF cfg.disable_memory
       THEN /\ memory' = memory
            /\ Log(Call("db", "upsert_chat_history"))
       ELSE /\ memory' = Stored(interaction(user_message, answer))
            /\ calls' = calls \o <<Call("memory", "save_history"),
                                   Call("db", "upsert_chat_history")>>
    /\ Ends(Return(returned_text(cfg, debug_string, answer)))
    /\ UNCHANGED <<cfg, user_message, chat_history, i, prompt, step, done, answer,
                   debug_string, used_faq, notTurn>>

Init ==
    /\ \E t \in Turns :
        cfg = t.cfg /\ user_message = t.message /\ memory = t.memory
    /\ chat_history = <<>>
    /\ pc = "start"
    /\ i = 0
    /\ prompt = <<>>
    /\ step = EmptyStep
    /\ done = FALSE
    /\ answer = <<>>
    /\ debug_string = <<>>
    /\ calls = <<>>
    /\ result = None
    /\ used_faq = <<>>
    /\ parallel = FALSE
    /\ ftask = [t \in Tasks |-> IdleTask]
    /\ tcall = None
    /\ ToolsIdle
    /\ StoreIdle
    /\ PoolIdle

Next ==
    \/ DevModeAction
    \/ ModerateMessage
    \/ SkipChatHistory
    \/ GetChatHistoryFails
    \/ GetChatHistory
    \/ SummarizeChatHistory
    \/ BuildPrompt
    \/ Reason
    \/ Observe
    \/ BudgetCheck
    \/ ForcedFinish
    \/ ModerateAnswer
    \/ SaveHistoryFails
    \/ SaveAndReturn

Spec == Init /\ [][Next]_vars

\* every call returns or raises, so a turn that can take a step takes it
SpecTerminates == Init /\ [][Next]_vars /\ WF_vars(Next)

----------------------------------------------------------------------------
(* The session memory store: app/services/memory_handler.py.  A stored     *)
(* text has the tokens "w" (a word), "q" (a double quote) and "b" (a       *)
(* backslash); the JSON text of a history has "{", "}", "[", "]", the key  *)
(* tokens "I" ("interactions":) and "S" ("summary":), and quoted strings.  *)

\* quotes and backslashes are written as they are
escape_nothing(text) == text

RECURSIVE escape(_)
\* json.dumps of the characters of a str: quotes and backslashes are escaped
escape(text) ==
    IF text = <<>> THEN <<>>
    ELSE (IF Head(text) \in {"q", "b"} THEN <<"b", Head(text)>> ELSE <<Head(text)>>)
            \o escape(Tail(text))

\* json.dumps of a str
json_string(text) == <<"q">> \o escape(text) \o <<"q">>

RECURSIVE json_strings(_)
\* json.dumps of a list of str
json_strings(list) ==
    IF list = <<>> THEN <<>>
    ELSE json_string(Head(list)) \o json_strings(Tail(list))

\* json.dumps of a history dict
dumps(h) ==
    <<"{">>
        \o (IF "interactions" \in DOMAIN h
            THEN <<"I", "[">> \o json_strings(h.interactions) \o <<"]">> ELSE <<>>)
        \o <<"S">> \o json_string(h.summary)
        \o <<"}">>

\* json.JSONDecodeError
Bad == [ok |-> FALSE]

RECURSIVE read_chars(_, _, _)
\* the characters of a JSON string up to its closing quote
read_chars(text, k, acc) ==
    IF k > Len(text) THEN Bad
    ELSE IF text[k] = "q" THEN [ok |-> TRUE, value |-> acc, next |-> k + 1]
    ELSE IF text[k] = "b"
    THEN (IF k + 1 > Len(text) THEN Bad
          ELSE read_chars(text, k + 2, Append(acc, text[k + 1])))
    ELSE read_chars(text, k + 1, Append(acc, text[k]))

read_string(text, k) ==
    IF k <= Len(text) /\ text[k] = "q" THEN read_chars(text, k + 1, <<>>) ELSE Bad

RECURSIVE read_strings(_, _, _)
\* the strings of a JSON list up to its closing bracket
read_strings(text, k, acc) ==
    IF k > Len(text) THEN Bad
    ELSE IF text[k] = "]" THEN [ok |-> TRUE, value |-> acc, next |-> k + 1]
    ELSE LET r == read_string(text, k)
         IN  IF r.ok THEN read_strings(text, r.next, Append(acc, r.value)) ELSE Bad

\* json.loads of the text of a history dict
loads(text) ==
    IF Len(text) < 2 \/ text[1] # "{" THEN Bad
    ELSE
    LET has == Len(text) >= 3 /\ text[2] = "I" /\ text[3] = "["
        list == IF has THEN read_strings(text, 4, <<>>)
                ELSE [ok |-> TRUE, value |-> <<>>, next |-> 2]
    IN  IF ~list.ok THEN Bad
        ELSE IF list.next > Len(text) \/ text[list.next] # "S" THEN Bad
        ELSE LET summary == read_string(text, list.next + 1)
             IN  IF ~summary.ok THEN Bad
                 ELSE IF summary.next # Len(text) \/ text[summary.next] # "}" THEN Bad
                 ELSE [ok |-> TRUE,
                       value |-> IF has
                                 THEN [interactions |-> list.value,
                                       summary |-> summary.value]
                                 ELSE [summary |-> summary.value]]

\* settings.expiration_time_in_seconds (3600), scaled
expiration_time_in_seconds == 2

\* the (user, chatbot_id) pairs that call the store; ids may hold a "_"
Pairs ==
    { [user |-> <<"a", "_", "b">>, chatbot_id |-> <<"c">>],
      [user |-> <<"a">>, chatbot_id |-> <<"b", "_", "c">>],
      [user |-> <<"a">>, chatbot_id |-> <<"c">>] }

\* user_id = user + "_" + chatbot_id
user_id(user, chatbot_id) == user \o <<"_">> \o chatbot_id

UserIds == {user_id(p.user, p.chatbot_id) : p \in Pairs}

Indexes == {<<"i1">>, <<"i2">>}

latest_index_field == <<"latest_index">>

\* f"{index}_intro_message_sent" and f"{index}_disclaimer_sent"
intro_field(index) == index \o <<"_intro_message_sent">>
disclaimer_field(index) == index \o <<"_disclaimer_sent">>

\* the keys of the user configs
ConfigKeys == {<<"whatsapp_verbose">>}

Fields ==
    Indexes \cup {latest_index_field} \cup ConfigKeys
        \cup {intro_field(x) : x \in Indexes} \cup {disclaimer_field(x) : x \in Indexes}

\* stored and returned values
Absent == [t |-> "absent"]
Str(x) == [t |-> "str", v |-> x]
Dict(h) == [t |-> "dict", v |-> h]
Flag(b) == [t |-> "bool", v |-> b]
Num(n) == [t |-> "int", v |-> n]

Returns(v) == [kind |-> "return", value |-> v]
MemoryHandlerError == Raise("MemoryHandlerError")
RedisError == Raise("RedisError")

\* where the underlying store fails during an operation, if it does
Faults == {"none", "read", "write"}

\* an empty store; a time to live of -1 is no expiry
EmptyStore ==
    [data |-> [k \in UserIds |-> [f \in Fields |-> Absent]],
     ttl |-> [k \in UserIds |-> -1]]

\* {"interactions": [], "summary": ""}
empty_history == [interactions |-> <<>>, summary |-> <<>>]

Res(st, outcome) == [data |-> st.data, ttl |-> st.ttl, outcome |-> outcome]

exists(st, key) == \E f \in Fields : st.data[key][f] # Absent

\* HSET, and a write to the dict of the user
hset(st, key, field, val) ==
    [data |-> [st.data EXCEPT ![key][field] = val], ttl |-> st.ttl]

\* EXPIRE
expire(st, key) ==
    [data |-> st.data, ttl |-> [st.ttl EXCEPT ![key] = expiration_time_in_seconds]]

\* DEL
delete(st, key) ==
    [data |-> [st.data EXCEPT ![key] = [f \in Fields |-> Absent]],
     ttl |-> [st.ttl EXCEPT ![key] = -1]]

\* HDEL: a hash without fields is removed
hdel(st, key, field) ==
    LET after == hset(st, key, field, Absent)
    IN  IF exists(after, key) THEN after ELSE delete(st, key)

(* RedisMemoryHandler.  Every operator takes the store before the call and *)
(* gives the store after it and the outcome of the call.                   *)

RedisMemoryHandler_save_history(st, key, index, history, fault) ==
    IF fault = "write" THEN Res(st, MemoryHandlerError)
    ELSE Res(expire(hset(st, key, index, Str(history)), key), Returns(None))

RedisMemoryHandler_retrieve_history(st, key, index, fault) ==
    IF fault = "read" THEN Res(st, MemoryHandlerError)
    ELSE IF st.data[key][index] = Absent THEN Res(st, Returns(None))
    ELSE LET r == loads(st.data[key][index].v)
         IN  IF r.ok THEN Res(st, Returns(Dict(r.value))) ELSE Res(st, MemoryHandlerError)

RedisMemoryHandler_save_interaction(st, key, index, text, fault) ==
    LET got == RedisMemoryHandler_retrieve_history(st, key, index, fault).outcome
    IN  IF got.kind = "raise" THEN Res(st, MemoryHandlerError)
        ELSE
        LET previous == IF got.value = None THEN empty_history ELSE got.value.v
        IN  IF "interactions" \notin DOMAIN previous THEN Res(st, MemoryHandlerError)
            ELSE RedisMemoryHandler_save_history(st, key, index,
                    dumps([previous EXCEPT !.interactions = Append(@, text)]), fault)

RedisMemoryHandler_clear_history(st, key, index, fault) ==
    IF fault = "write" THEN Res(st, MemoryHandlerError)
    ELSE Res(hdel(st, key, index), Returns(None))

RedisMemoryHandler_set_latest_user_index(st, key, index, fault) ==
    IF fault = "write" THEN Res(st, MemoryHandlerError)
    ELSE Res(hset(st, key, latest_index_field, Str(index)), Returns(None))

RedisMemoryHandler_get_latest_user_index(st, key, fault) ==
    IF fault = "read" THEN Res(st, MemoryHandlerError)
    ELSE IF st.data[key][latest_index_field] = Absent THEN Res(st, Returns(None))
    ELSE Res(st, Returns(st.data[key][latest_index_field]))

\* configs is {config: value} with one key
RedisMemoryHandler_set_user_configs(st, key, config, val, fault) ==
    IF fault = "write" THEN Res(st, RedisError)
    ELSE Res(hset(st, key, config, Str(val)), Returns(None))

RedisMemoryHandler_get_user_config(st, key, config, fault) ==
    IF fault = "read" THEN Res(st, RedisError)
    ELSE IF st.data[key][config] = Absent THEN Res(st, Returns(Num(0)))
    ELSE Res(st, Returns(st.data[key][config]))

RedisMemoryHandler_reset_chatbot(st, key, fault) ==
    IF fault = "write" THEN Res(st, RedisError)
    ELSE Res(delete(st, key), Returns(None))

\* set_intro_message_sent and set_disclaimer_sent, on their field
RedisMemoryHandler_set_sent(st, key, field, fault) ==
    IF fault = "write" THEN Res(st, MemoryHandlerError)
    ELSE Res(hset(st, key, field, Str(<<"True">>)), Returns(None))

\* check_intro_message_sent and check_disclaimer_sent, on their field
RedisMemoryHandler_check_sent(st, key, field, fault) ==
    IF fault = "read" THEN Res(st, MemoryHandlerError)
    ELSE IF st.data[key][field] = Absent THEN Res(st, Returns(Flag(FALSE)))
    ELSE Res(st, Returns(Flag(st.data[key][field].v = <<"True">>)))

(* JSONMemoryHandler.  A read fault is a failure of _open, a write fault a *)
(* failure of _save.                                                       *)

JSONMemoryHandler_save_history(st, key, index, history, fault) ==
    IF fault = "read" THEN Res(st, MemoryHandlerError)
    ELSE LET r == loads(history)
         IN  IF ~r.ok \/ fault = "write" THEN Res(st, MemoryHandlerError)
             ELSE Res(hset(st, key, index, Dict(r.value)), Returns(None))

JSONMemoryHandler_save_interaction(st, key, index, text, fault) ==
    IF fault = "read" THEN Res(st, MemoryHandlerError)
    ELSE
    LET user_chat_history == IF exists(st, key) THEN st.data[key][index] ELSE Dict(empty_history)
    IN  IF user_chat_history = Absent THEN Res(st, MemoryHandlerError)
        ELSE IF "interactions" \notin DOMAIN user_chat_history.v THEN Res(st, MemoryHandlerError)
        ELSE JSONMemoryHandler_save_history(st, key, index,
                dumps([user_chat_history.v EXCEPT !.interactions = Append(@, text)]), fault)

JSONMemoryHandler_retrieve_history(st, key, index, fault) ==
    IF fault = "read" THEN Res(st, MemoryHandlerError)
    ELSE IF st.data[key][index] = Absent THEN Res(st, Returns(None))
    ELSE Res(st, Returns(st.data[key][index]))

\* del memory[user_id][index]["interactions"]
del_interactions(h) == [x \in DOMAIN h \ {"interactions"} |-> h[x]]

JSONMemoryHandler_clear_history(st, key, index, fault) ==
    IF fault = "read" THEN Res(st, MemoryHandlerError)
    ELSE IF st.data[key][index] = Absent THEN Res(st, Returns(None))
    ELSE IF "interactions" \notin DOMAIN st.data[key][index].v THEN Res(st, Returns(None))
    ELSE IF fault = "write" THEN Res(st, Returns(None))
    ELSE Res(hset(st, key, index, Dict(del_interactions(st.data[key][index].v))),
             Returns(None))

JSONMemoryHandler_set_latest_user_index(st, key, index, fault) ==
    IF fault # "none" THEN Res(st, MemoryHandlerError)
    ELSE Res(hset(st, key, latest_index_field, Str(index)), Returns(None))

JSONMemoryHandler_get_latest_user_index(st, key, fault) ==
    IF fault = "read" THEN Res(st, MemoryHandlerError)
    ELSE IF st.data[key][latest_index_field] = Absent THEN Res(st, Returns(None))
    ELSE Res(st, Returns(st.data[key][latest_index_field]))

JSONMemoryHandler_set_sent(st, key, field, fault) ==
    IF fault # "none" THEN Res(st, MemoryHandlerError)
    ELSE Res(hset(st, key, field, Flag(TRUE)), Returns(None))

JSONMemoryHandler_check_sent(st, key, field, fault) ==
    IF fault = "read" THEN Res(st, MemoryHandlerError)
    ELSE IF st.data[key][field] = Absent THEN Res(st, Returns(Flag(FALSE)))
    ELSE Res(st, Returns(st.data[key][field]))

(* One operation of a memory handler on a store that earlier operations    *)
(* have filled.                                                            *)

Kinds == {"json", "redis"}

\* MemoryHandler: the operation of the handler in use
save_history(kind, st, key, index, history, fault) ==
    IF kind = "redis" THEN RedisMemoryHandler_save_history(st, key, index, history, fault)
    ELSE JSONMemoryHandler_save_history(st, key, index, history, fault)

retrieve_history(kind, st, key, index, fault) ==
    IF kind = "redis" THEN RedisMemoryHandler_retrieve_history(st, key, index, fault)
    ELSE JSONMemoryHandler_retrieve_history(st, key, index, fault)

save_interaction(kind, st, key, index, text, fault) ==
    IF kind = "redis" THEN RedisMemoryHandler_save_interaction(st, key, index, text, fault)
    ELSE JSONMemoryHandler_save_interaction(st, key, index, text, fault)

clear_history(kind, st, key, index, fault) ==
    IF kind = "redis" THEN RedisMemoryHandler_clear_history(st, key, index, fault)
    ELSE JSONMemoryHandler_clear_history(st, key, index, fault)

set_latest_user_index(kind, st, key, index, fault) ==
    IF kind = "redis" THEN RedisMemoryHandler_set_latest_user_index(st, key, index, fault)
    ELSE JSONMemoryHandler_set_latest_user_index(st, key, index, fault)

get_latest_user_index(kind, st, key, fault) ==
    IF kind = "redis" THEN RedisMemoryHandler_get_latest_user_index(st, key, fault)
    ELSE JSONMemoryHandler_get_latest_user_index(st, key, fault)

set_sent(kind, st, key, field, fault) ==
    IF kind = "redis" THEN RedisMemoryHandler_set_sent(st, key, field, fault)
    ELSE JSONMemoryHandler_set_sent(st, key, field, fault)

check_sent(kind, st, key, field, fault) ==
    IF kind = "redis" THEN RedisMemoryHandler_check_sent(st, key, field, fault)
    ELSE JSONMemoryHandler_check_sent(st, key, field, fault)

\* texts of interactions and summaries
InteractionTexts == {<<"w">>, <<"q", "w", "b">>}
StoreSummaries == {<<>>, <<"w", "q">>}

\* the histories given to save_history: dumped dicts, and the plain text
\* that ChatHandler.get_chat_history passes
Histories ==
    {[interactions |-> <<>>, summary |-> x] : x \in StoreSummaries}
        \cup {[interactions |-> << <<"w">> >>, summary |-> <<"w", "q">>]}
HistoryStrings == {dumps(h) : h \in Histories} \cup {<<"R", "w">>}

ConfigValues == {<<"1">>}

Store == [data |-> mdata, ttl |-> mttl]

Key1 == user_id(<<"a", "_", "b">>, <<"c">>)
Key3 == user_id(<<"a">>, <<"c">>)
Index1 == <<"i1">>

\* stores that operations of the handler leave behind
Stored1(kind) ==
    save_history(kind, EmptyStore, Key1, Index1,
                 dumps([interactions |-> << <<"w">> >>, summary |-> <<"w", "q">>]), "none")
Stored2(kind) == save_interaction(kind, Stored1(kind), Key1, Index1, <<"q", "w", "b">>, "none")
Stored3(kind) == set_latest_user_index(kind, EmptyStore, Key1, Index1, "none")
Stored4(kind) ==
    LET a == set_sent(kind, Stored1(kind), Key1, intro_field(Index1), "none")
        b == set_sent(kind, a, Key1, disclaimer_field(Index1), "none")
        c == set_latest_user_index(kind, b, Key1, Index1, "none")
        e == IF kind = "redis"
             THEN RedisMemoryHandler_set_user_configs(c, Key1, <<"whatsapp_verbose">>, <<"1">>, "none")
             ELSE c
    IN  save_interaction(kind, e, Key3, Index1, <<"w">>, "none")
Stored5(kind) == clear_history(kind, Stored1(kind), Key1, Index1, "none")
Stored6(kind) == save_history(kind, EmptyStore, Key1, Index1, <<"R", "w">>, "none")

InitStores(kind) ==
    {EmptyStore} \cup
    {[data |-> r.data, ttl |-> r.ttl] :
        r \in {Stored1(kind), Stored2(kind), Stored3(kind), Stored4(kind),
               Stored5(kind), Stored6(kind)}}

\* the call: its operation, arguments, the fault of the store and whether
\* the call met it, the store before the call, and its outcome
MemoryCall(op, p, index, arg, fault, res, met) ==
    [op |-> op, user |-> p.user, chatbot_id |-> p.chatbot_id, index |-> index,
     arg |-> arg, fault |-> fault, met |-> met, before |-> Store,
     outcome |-> res.outcome]

\* res is the call under the fault and clean the call on a store that
\* works; the call met the fault when the two differ
Do(op, p, index, arg, fault, res, clean) ==
    /\ mcall = None
    /\ mdata' = res.data
    /\ mttl' = res.ttl
    /\ mcall' = MemoryCall(op, p, index, arg, fault, res, res # clean)
    /\ UNCHANGED <<mkind, notStore>>

KeyOf(p) == user_id(p.user, p.chatbot_id)

SaveHistory ==
    \E p \in Pairs, index \in Indexes, history \in HistoryStrings, fault \in Faults :
        Do("save_history", p, index, history, fault,
           save_history(mkind, Store, KeyOf(p), index, history, fault),
           save_history(mkind, Store, KeyOf(p), index, history, "none"))

RetrieveHistory ==
    \E p \in Pairs, index \in Indexes, fault \in Faults :
        Do("retrieve_history", p, index, <<>>, fault,
           retrieve_history(mkind, Store, KeyOf(p), index, fault),
           retrieve_history(mkind, Store, KeyOf(p), index, "none"))

SaveInteraction ==
    \E p \in Pairs, index \in Indexes, text \in InteractionTexts, fault \in Faults :
        Do("save_interaction", p, index, text, fault,
           save_interaction(mkind, Store, KeyOf(p), index, text, fault),
           save_interaction(mkind, Store, KeyOf(p), index, text, "none"))

ClearHistory ==
    \E p \in Pairs, index \in Indexes, fault \in Faults :
        Do("clear_history", p, index, <<>>, fault,
           clear_history(mkind, Store, KeyOf(p), index, fault),
           clear_history(mkind, Store, KeyOf(p), index, "none"))

SetLatestUserIndex ==
    \E p \in Pairs, index \in Indexes, fault \in Faults :
        Do("set_latest_user_index", p, index, <<>>, fault,
           set_latest_user_index(mkind, Store, KeyOf(p), index, fault),
           set_latest_user_index(mkind, Store, KeyOf(p), index, "none"))

GetLatestUserIndex ==
    \E p \in Pairs, fault \in Faults :
        Do("get_latest_user_index", p, <<>>, <<>>, fault,
           get_latest_user_index(mkind, Store, KeyOf(p), fault),
           get_latest_user_index(mkind, Store, KeyOf(p), "none"))

SetIntroMessageSent ==
    \E p \in Pairs, index \in Indexes, fault \in Faults :
        Do("set_intro_message_sent", p, index, <<>>, fault,
           set_sent(mkind, Store, KeyOf(p), intro_field(index), fault),
           set_sent(mkind, Store, KeyOf(p), intro_field(index), "none"))

CheckIntroMessageSent ==
    \E p \in Pairs, index \in Indexes, fault \in Faults :
        Do("check_intro_message_sent", p, index, <<>>, fault,
           check_sent(mkind, Store, KeyOf(p), intro_field(index), fault),
           check_sent(mkind, Store, KeyOf(p), intro_field(index), "none"))

SetDisclaimerSent ==
    \E p \in Pairs, index \in Indexes, fault \in Faults :
        Do("set_disclaimer_sent", p, index, <<>>, fault,
           set_sent(mkind, Store, KeyOf(p), disclaimer_field(index), fault),
           set_sent(mkind, Store, KeyOf(p), disclaimer_field(index), "none"))

CheckDisclaimerSent ==
    \E p \in Pairs, index \in Indexes, fault \in Faults :
        Do("check_disclaimer_sent", p, index, <<>>, fault,
           check_sent(mkind, Store, KeyOf(p), disclaimer_field(index), fault),
           check_sent(mkind, Store, KeyOf(p), disclaimer_field(index), "none"))

SetUserConfigs ==
    /\ mkind = "redis"
    /\ \E p \in Pairs, config \in ConfigKeys, val \in ConfigValues, fault \in Faults :
        Do("set_user_configs", p, config, val, fault,
           RedisMemoryHandler_set_user_configs(Store, KeyOf(p), config, val, fault),
           RedisMemoryHandler_set_user_configs(Store, KeyOf(p), config, val, "none"))

GetUserConfig ==
    /\ mkind = "redis"
    /\ \E p \in Pairs, config \in ConfigKeys, fault \in Faults :
        Do("get_user_config", p, config, <<>>, fault,
           RedisMemoryHandler_get_user_config(Store, KeyOf(p), config, fault),
           RedisMemoryHandler_get_user_config(Store, KeyOf(p), config, "none"))

ResetChatbot ==
    /\ mkind = "redis"
    /\ \E p \in Pairs, fault \in Faults :
        Do("reset_chatbot", p, <<>>, <<>>, fault,
           RedisMemoryHandler_reset_chatbot(Store, KeyOf(p), fault),
           RedisMemoryHandler_reset_chatbot(Store, KeyOf(p), "none"))

\* a second passes before the call: Redis removes the keys whose time is up
Tick ==
    /\ mkind = "redis"
    /\ mcall = None
    /\ \E k \in UserIds : mttl[k] > 0
    /\ mttl' = [k \in UserIds |-> IF mttl[k] > 1 THEN mttl[k] - 1 ELSE -1]
    /\ mdata' = [k \in UserIds |->
                    IF mttl[k] = 1 THEN [f \in Fields |-> Absent] ELSE mdata[k]]
    /\ UNCHANGED <<mkind, mcall, notStore>>

InitMemory ==
    /\ mkind \in Kinds
    /\ \E st \in InitStores(mkind) : mdata = st.data /\ mttl = st.ttl
    /\ mcall = None
    /\ tcall = None
    /\ ToolsIdle
    /\ FaqIdle
    /\ TurnIdle
    /\ PoolIdle

NextMemory ==
    \/ SaveHistory
    \/ RetrieveHistory
    \/ SaveInteraction
    \/ ClearHistory
    \/ SetLatestUserIndex
    \/ GetLatestUserIndex
    \/ SetIntroMessageSent
    \/ CheckIntroMessageSent
    \/ SetDisclaimerSent
    \/ CheckDisclaimerSent
    \/ SetUserConfigs
    \/ GetUserConfig
    \/ ResetChatbot
    \/ Tick

SpecMemory == InitMemory /\ [][NextMemory]_vars

----------------------------------------------------------------------------
(* ChatHandlerFunctionCall.search_information_parallel: the descriptions   *)
(* of the items are searched by the tasks of a thread pool and the answers *)
(* are taken in the order of flat_list.                                    *)

\* settings.parallel_observations_function_call (4), scaled
parallel_observations_function_call == 2

\* arguments["informacoes"]: every item with its descriptions, in key order
InfoLists ==
    { << <<"d1", "d2">>, <<"d3", "d4">> >>,
      << <<"d1", "d1">>, <<"d2", "d3">> >> }

\* three items given twice each: six tasks
SixTasks == << <<"d1", "d2">>, <<"d1", "d2">>, <<"d1", "d2">> >>

\* what the search of a description gives: a text, or it raises
TaskOutcomes == {Return(<<"w">>), Return(<<"w", "w", "w">>), Raise("Exception")}

\* the tokens left for the results: too few for all of them, or enough
RemainingTokens == {15, 60}

\* the calls of search_information_parallel
ParallelCalls ==
    [info_list : InfoLists, remaining_tokens : RemainingTokens]
        \cup [info_list : {SixTasks}, remaining_tokens : {60}]

RECURSIVE flat_from(_, _, _)
\* lines 206-221: the tasks, item after item and description after description
flat_from(items, a, b) ==
    IF a > Len(items) THEN <<>>
    ELSE IF b > Len(items[a]) THEN flat_from(items, a + 1, 1)
    ELSE <<[index |-> a, name |-> items[a][b]]>> \o flat_from(items, a, b + 1)

flat_list(items) == flat_from(items, 1, 1)

RECURSIVE dict_tokens(_, _)
\* the tokens of the entries of a dict: a key and its text
dict_tokens(dict, keys) ==
    IF keys = {} THEN 0
    ELSE LET k == CHOOSE x \in keys : TRUE
         IN  1 + Len(dict[k]) + dict_tokens(dict, keys \ {k})

RECURSIVE list_tokens(_, _)
list_tokens(list, a) ==
    IF a > Len(list) THEN 0
    ELSE 2 + dict_tokens(list[a], DOMAIN list[a]) + list_tokens(list, a + 1)

\* model_utils.get_num_tokens(json.dumps(result))
result_tokens(list) == 2 + list_tokens(list, 1)

\* the answer is written under another item
put_in_first(list, a, name, text) == [list EXCEPT ![1] = (name :> text) @@ @]

\* result[i][name] = text
put(list, a, name, text) == [list EXCEPT ![a] = (name :> text) @@ @]

\* the answer is left out when the array would be above the tokens left
take_answer_drops(list, remaining, a, name, text) ==
    IF remaining < result_tokens(put(list, a, name, text)) THEN list
    ELSE put(list, a, name, text)

\* lines 232-240: the answer is written, and blanked when the array is then
\* above the tokens left
take_answer(list, remaining, a, name, text) ==
    IF remaining < result_tokens(put(list, a, name, text))
    THEN put(list, a, name, <<>>)
    ELSE put(list, a, name, text)

Queued == [status |-> "queued", outcome |-> None, overtook |-> FALSE]

Running(t) == futures[t].status = "running"

\* a free thread of the pool takes the first task of the queue
StartTask(t) ==
    /\ ppc = "collect"
    /\ futures[t].status = "queued"
    /\ \A u \in 1..(t - 1) : futures[u].status # "queued"
    /\ Cardinality({u \in 1..Len(futures) : Running(u)}) < max_workers
    /\ futures' = [futures EXCEPT ![t].status = "running"]
    /\ UNCHANGED <<info_list, remaining_tokens, max_workers, answers, taken, ppc, notPool>>

\* lines 10-31: the task ends, with the observation or with an exception
FinishTask(t) ==
    /\ Running(t)
    /\ \E o \in TaskOutcomes :
        futures' = [futures EXCEPT ![t] =
                        [status |-> "done", outcome |-> o,
                         overtook |-> \E u \in 1..(t - 1) : futures[u].status # "done"]]
    /\ UNCHANGED <<info_list, remaining_tokens, max_workers, answers, taken, ppc, notPool>>

\* lines 231-240: the next answer of answer_flat_list is taken once its task
\* has ended; the exception of a task is raised here
TakeAnswer ==
    /\ ppc = "collect"
    /\ taken < Len(futures)
    /\ futures[taken + 1].status = "done"
    /\ LET task == flat_list(info_list)[taken + 1]
           o == futures[taken + 1].outcome
       IN  IF o.kind = "raise"
           THEN ppc' = "raised" /\ UNCHANGED <<answers, taken>>
           ELSE /\ answers' = take_answer(answers, remaining_tokens, task.index,
                                          task.name, o.text)
                /\ taken' = taken + 1
                /\ ppc' = ppc
    /\ UNCHANGED <<info_list, remaining_tokens, max_workers, futures, notPool>>

\* line 242
ReturnResult ==
    /\ ppc = "collect"
    /\ taken = Len(futures)
    /\ ppc' = "returned"
    /\ UNCHANGED <<info_list, remaining_tokens, max_workers, futures, answers, taken,
                   notPool>>

InitParallel ==
    /\ \E c \in ParallelCalls :
        info_list = c.info_list /\ remaining_tokens = c.remaining_tokens
    /\ max_workers \in 1..parallel_observations_function_call
    /\ futures = [t \in 1..Len(flat_list(info_list)) |-> Queued]
    /\ answers = [a \in 1..Len(info_list) |-> <<>>]
    /\ taken = 0
    /\ ppc = "collect"
    /\ sturn = <<>>
    /\ tcall = None
    /\ ToolsIdle
    /\ FaqIdle
    /\ TurnIdle
    /\ StoreIdle

NextParallel ==
    \/ \E t \in 1..Len(futures) : StartTask(t)
    \/ \E t \in 1..Len(futures) : FinishTask(t)
    \/ TakeAnswer
    \/ ReturnResult

SpecParallel == InitParallel /\ [][NextParallel]_vars

----------------------------------------------------------------------------
(* Turns of get_response on one session at the same time: get_chat_history *)
(* (chat_handler.py:738-764) and the save of line 299 are calls to the     *)
(* memory store with nothing that keeps other turns out between them.      *)

ConcurrentTurns == {1, 2}

\* the message of a turn and the answer it gets
turn_message(t) == IF t = 1 THEN <<"w">> ELSE <<"W">>
turn_answer(t) == <<"c", "w">>

StartingTurn == [pc |-> "retrieve", chat_history |-> <<>>, summary |-> <<>>]

\* line 748: self._memory.retrieve_history(user_id, chatbot_id, index)
TurnRetrieve(t) ==
    /\ sturn[t].pc = "retrieve"
    /\ sturn' = [sturn EXCEPT
                    ![t].chat_history = IF memory = None THEN <<>> ELSE memory.history,
                    ![t].pc = IF memory = None THEN "answer"
                              ELSE IF get_num_tokens(memory.history) > max_tokens_chat_history
                              THEN "summarize"
                              ELSE "answer"]
    /\ UNCHANGED memory

\* line 756: summary = self.make_summary(chat_history)
TurnMakeSummary(t) ==
    /\ sturn[t].pc = "summarize"
    /\ \E r \in CompletionOutcomes(SummaryTexts) :
        LET summary == get_reasoning(r)
        IN  sturn' = IF summary.kind = "raise"
                     THEN [sturn EXCEPT ![t].pc = "raised"]
                     ELSE [sturn EXCEPT ![t].pc = "clear", ![t].summary = summary.text]
    /\ UNCHANGED memory

\* line 757: self._memory.clear_history(user_id, chatbot_id, index)
TurnClear(t) ==
    /\ sturn[t].pc = "clear"
    /\ memory' = None
    /\ sturn' = [sturn EXCEPT ![t].pc = "save_summary"]

\* lines 758-763: self._memory.save_history(..., f"Resumo ...: {summary}\n")
TurnSaveSummary(t) ==
    /\ sturn[t].pc = "save_summary"
    /\ memory' = Stored(summary_history(sturn[t].summary))
    /\ sturn' = [sturn EXCEPT ![t].pc = "answer"]

\* lines 187-303: the turn finds its answer and saves the interaction
TurnSaveAnswer(t) ==
    /\ sturn[t].pc = "answer"
    /\ memory' = Stored(interaction(turn_message(t), turn_answer(t)))
    /\ sturn' = [sturn EXCEPT ![t].pc = "end"]

notSummary ==
    <<toolVars, faqVars, storeVars, poolVars, cfg, user_message, chat_history, pc, i,
      prompt, step, done, answer, debug_string, calls, result>>

InitSummary ==
    /\ memory \in Memories
    /\ sturn = [t \in ConcurrentTurns |-> StartingTurn]
    /\ cfg = None
    /\ user_message = <<>>
    /\ chat_history = <<>>
    /\ pc = "idle"
    /\ i = 0
    /\ prompt = <<>>
    /\ step = None
    /\ done = FALSE
    /\ answer = <<>>
    /\ debug_string = <<>>
    /\ calls = <<>>
    /\ result = None
    /\ info_list = <<>>
    /\ remaining_tokens = 0
    /\ max_workers = 0
    /\ futures = <<>>
    /\ answers = <<>>
    /\ taken = 0
    /\ ppc = "idle"
    /\ tcall = None
    /\ ToolsIdle
    /\ FaqIdle
    /\ StoreIdle

NextSummary ==
    \E t \in ConcurrentTurns :
        /\ \/ TurnRetrieve(t)
           \/ TurnMakeSummary(t)
           \/ TurnClear(t)
           \/ TurnSaveSummary(t)
           \/ TurnSaveAnswer(t)
        /\ UNCHANGED notSummary

SpecSummary == InitSummary /\ [][NextSummary]_vars

----------------------------------------------------------------------------
(* Two calls of RedisMemoryHandler.save_interaction on one session at the  *)
(* same time (memory_handler.py:290-316): every command sent to Redis is   *)
(* one step, and a command is carried out by Redis as a whole.             *)

\* the interaction a call appends
writer_interaction(t) == IF t = 1 THEN <<"w">> ELSE <<"q", "w", "b">>

StartingWriter == [pc |-> "hexists", chat_history |-> None, seq |-> 0]

append_interaction_dropped(previous, text) == previous

\* line 298: chat_history["interactions"].append(interaction)
append_interaction(previous, text) == [previous EXCEPT !.interactions = Append(@, text)]

\* how many calls have sent their HSET
Written == Cardinality({t \in DOMAIN sturn : sturn[t].seq > 0})

\* line 314: self.client.hexists(user_id, index) == 0, and lines 296-297
WriterExists(t) ==
    /\ sturn[t].pc = "hexists"
    /\ sturn' = IF mdata[Key1][Index1] = Absent
                THEN [sturn EXCEPT ![t].pc = "hset", ![t].chat_history = empty_history]
                ELSE [sturn EXCEPT ![t].pc = "hget"]
    /\ UNCHANGED <<mdata, mttl>>

\* line 316: json.loads(self.client.hget(user_id, index).decode("utf-8")); a
\* failure here or at line 298 is raised as MemoryHandlerError
WriterGet(t) ==
    /\ sturn[t].pc = "hget"
    /\ LET value == mdata[Key1][Index1]
           r == IF value = Absent THEN Bad ELSE loads(value.v)
       IN  sturn' = IF ~r.ok THEN [sturn EXCEPT ![t].pc = "raised"]
                    ELSE IF "interactions" \notin DOMAIN r.value
                    THEN [sturn EXCEPT ![t].pc = "raised"]
                    ELSE [sturn EXCEPT ![t].pc = "hset", ![t].chat_history = r.value]
    /\ UNCHANGED <<mdata, mttl>>

\* lines 298-300 and 308: the interaction is appended to the history read and
\* the text of the result is sent with HSET
WriterSet(t) ==
    /\ sturn[t].pc = "hset"
    /\ LET history_string ==
            dumps(append_interaction(sturn[t].chat_history, writer_interaction(t)))
       IN  mdata' = hset(Store, Key1, Index1, Str(history_string)).data
    /\ sturn' = [sturn EXCEPT ![t].pc = "expire", ![t].seq = Written + 1]
    /\ UNCHANGED mttl

\* line 309: EXPIRE sent by save_history
WriterExpire(t) ==
    /\ sturn[t].pc = "expire"
    /\ mttl' = expire(Store, Key1).ttl
    /\ sturn' = [sturn EXCEPT ![t].pc = "expire_again"]
    /\ UNCHANGED mdata

\* line 301: EXPIRE sent by save_interaction
WriterExpireAgain(t) ==
    /\ sturn[t].pc = "expire_again"
    /\ mttl' = expire(Store, Key1).ttl
    /\ sturn' = [sturn EXCEPT ![t].pc = "end"]
    /\ UNCHANGED mdata

notAppend == <<toolVars, faqVars, turnVars, poolVars, mkind, mcall>>

InitAppend ==
    /\ mkind = "redis"
    /\ \E st \in InitStores("redis") : mdata = st.data /\ mttl = st.ttl
    /\ mcall = None
    /\ sturn = [t \in ConcurrentTurns |-> StartingWriter]
    /\ info_list = <<>>
    /\ remaining_tokens = 0
    /\ max_workers = 0
    /\ futures = <<>>
    /\ answers = <<>>
    /\ taken = 0
    /\ ppc = "idle"
    /\ tcall = None
    /\ ToolsIdle
    /\ FaqIdle
    /\ TurnIdle

NextAppend ==
    \E t \in ConcurrentTurns :
        /\ \/ WriterExists(t)
           \/ WriterGet(t)
           \/ WriterSet(t)
           \/ WriterExpire(t)
           \/ WriterExpireAgain(t)
        /\ UNCHANGED notAppend

SpecAppend == InitAppend /\ [][NextAppend]_vars

----------------------------------------------------------------------------
(* ChatHandlerFunctionCall.find_answer                                     *)
(* (app/services/chat_handler_function_call.py:68-193): history is the     *)
(* list of messages sent so far, kept in prompt as their roles.            *)

\* settings.max_tokens_function_call (1024), scaled
max_tokens_function_call == 6

\* response["function_call"]: its name and its arguments, a JSON text that
\* holds the list "informacoes" or cannot be read
FunctionCalls ==
    [name : {"buscar_informacoes_necessarias"},
     arguments : {[ok |-> TRUE, value |-> x] : x \in InfoLists} \cup {Bad}]
        \cup [name : {"other"}, arguments : {Bad}]

\* what retry_request_with_timeout gives for the first call of call_model
FirstResponses ==
    {Timeout} \cup [kind : {"response"}, status : {500}]
        \cup [kind : {"response"}, status : {200}, has_text : {TRUE},
              text : {<<"s", "c", "w">>}, function_call : {None}, total_tokens : {4}]
        \cup [kind : {"response"}, status : {200}, has_text : {FALSE},
              text : {<<>>}, function_call : FunctionCalls, total_tokens : {4, 5}]

\* and for the second: the text may be missing
SynthesisResponses ==
    {Timeout} \cup [kind : {"response"}, status : {500}]
        \cup [kind : {"response"}, status : {200}, has_text : {TRUE},
              text : {<<"s", "c", "w">>, <<"c">>}]
        \cup [kind : {"response"}, status : {200}, has_text : {FALSE}, text : {<<>>}]

\* call_model, lines 57-66, given the outcome r of retry_request_with_timeout
call_model(r) ==
    IF r.kind = "raise" THEN r
    ELSE IF ~ok(r) THEN Raise("Exception")
    ELSE [kind |-> "return", response |-> r]

RECURSIVE take_answers(_, _, _, _, _)
\* lines 230-242: the answers of the tasks are taken in the order of flat_list
take_answers(list, remaining, tasks, outcomes, k) ==
    IF k > Len(tasks) THEN list
    ELSE take_answers(take_answer(list, remaining, tasks[k].index, tasks[k].name,
                                  outcomes[k].text),
                      remaining, tasks, outcomes, k + 1)

\* lines 118-162: the first call of the completion service; without a
\* function call its text is the answer
CallModel ==
    /\ pc = "find_answer"
    /\ \E r \in FirstResponses :
        LET got == call_model(r)
        IN  /\ Log(Completion("function_call", r))
            /\ prompt' = <<"system", "user">>
            /\ IF got.kind = "raise"
               THEN Ends(got) /\ UNCHANGED <<info_list, remaining_tokens>>
               ELSE IF r.function_call = None
               THEN /\ Ends([kind |-> "return", text |-> r.text,
                             debug |-> <<"No function call received">>])
                    /\ UNCHANGED <<info_list, remaining_tokens>>
               ELSE IF r.function_call.name # "buscar_informacoes_necessarias"
               THEN Ends(Raise("AssertionError"))
                        /\ UNCHANGED <<info_list, remaining_tokens>>
               ELSE IF ~r.function_call.arguments.ok
               THEN Ends(Raise("JSONDecodeError"))
                        /\ UNCHANGED <<info_list, remaining_tokens>>
               ELSE /\ pc' = "search"
                    /\ result' = result
                    /\ info_list' = r.function_call.arguments.value
                    /\ remaining_tokens' =
                          max_tokens_prompt - r.total_tokens - max_tokens_function_call
    /\ UNCHANGED answers

\* lines 153-173: the function call is added to history and the descriptions
\* are searched by search_information_parallel; the exception of a task
\* leaves find_answer
SearchInformationParallel ==
    /\ pc = "search"
    /\ \E outcomes \in [1..Len(flat_list(info_list)) -> TaskOutcomes] :
        /\ Log(Call("search_information_parallel", "fan_out"))
        /\ prompt' = Append(prompt, "assistant")
        /\ IF \E k \in DOMAIN outcomes : outcomes[k].kind = "raise"
           THEN Ends(Raise("Exception")) /\ UNCHANGED answers
           ELSE /\ pc' = "synthesis"
                /\ result' = result
                /\ answers' = take_answers([a \in 1..Len(info_list) |-> <<>>],
                                           remaining_tokens, flat_list(info_list),
                                           outcomes, 1)
    /\ UNCHANGED <<info_list, remaining_tokens>>

\* the completion service is asked again after the synthesis
SynthesisCall_again ==
    /\ pc = "synthesis"
    /\ Len(calls) < 6
    /\ \E r \in SynthesisResponses :
        /\ Log(Completion("synthesis", r))
        /\ prompt' = Append(prompt, "function")
        /\ pc' = "synthesis"
        /\ result' = result
    /\ UNCHANGED <<info_list, remaining_tokens, answers>>

\* lines 178-193: the results are sent to the completion service, whose text
\* is the answer
SynthesisCall ==
    /\ pc = "synthesis"
    /\ \E r \in SynthesisResponses :
        LET got == call_model(r)
        IN  /\ Log(Completion("synthesis", r))
            /\ prompt' = Append(prompt, "function")
            /\ IF got.kind = "raise" THEN Ends(got)
               ELSE IF ~r.has_text THEN Ends(Raise("Exception"))
               ELSE Ends([kind |-> "return", text |-> strip(r.text),
                          debug |-> <<"Function Call:", "Search results:">>])
    /\ UNCHANGED <<info_list, remaining_tokens, answers>>

notFindAnswer ==
    <<toolVars, faqVars, storeVars, sturn, cfg, user_message, memory, chat_history, i,
      step, done, answer, debug_string, max_workers, futures, taken, ppc>>

InitFindAnswer ==
    /\ pc = "find_answer"
    /\ cfg = None
    /\ user_message \in {<<"w">>, <<"w", "w">>}
    /\ memory = None
    /\ chat_history = <<>>
    /\ i = 0
    /\ prompt = <<>>
    /\ step = None
    /\ done = FALSE
    /\ answer = <<>>
    /\ debug_string = <<>>
    /\ calls = <<>>
    /\ result = None
    /\ info_list = <<>>
    /\ remaining_tokens = 0
    /\ max_workers = 0
    /\ futures = <<>>
    /\ answers = <<>>
    /\ taken = 0
    /\ ppc = "idle"
    /\ sturn = <<>>
    /\ tcall = None
    /\ ToolsIdle
    /\ FaqIdle
    /\ StoreIdle

NextFindAnswer ==
    /\ \/ CallModel
       \/ SearchInformationParallel
       \/ SynthesisCall
    /\ UNCHANGED notFindAnswer

SpecFindAnswer == InitFindAnswer /\ [][NextFindAnswer]_vars

----------------------------------------------------------------------------
(* The callers of get_response: process_request of the WhatsApp webhook    *)
(* (app/routers/webhook.py:29-136) and get_chat_answer of the /chatbot API *)
(* (app/routers/chatbot.py:30-109).  cfg is the request, calls what the    *)
(* user is sent, result what get_response gave, mdata the flags of the     *)
(* user in the memory store.                                               *)

Channels == {"webhook", "api"}

\* an exception with the text str() gives for it
Error(exc, message) == [kind |-> "raise", exc |-> exc, message |-> message]

\* the exceptions that leave get_response: their text is the body of a
\* service response or the text of the exception of a library
TurnErrors ==
    { Error("NSXAuthenticationError", <<"body">>),
      Error("PromptAnswererError", <<"body">>),
      Error("Timeout", <<"url">>),
      Error("Exception", <<"body">>) }

MemoryFailure == Error("MemoryHandlerError", <<"redis", "host">>)

\* what get_response gives
TurnOutcomes == {Return(<<"c", "w">>), Return(<<"c">>)} \cup TurnErrors

ChatbotExceptions ==
    {"NSXAuthenticationError", "NSXSearchError", "SenseSearchError", "ModerationError",
     "PromptAnswererError", "DialogConfigError", "WebhookError", "MaxTokensError",
     "MemoryHandlerError"}

\* webhook.py:102-123: ce.error_code.value, ErrorCodes.TIMEOUT.value or
\* ErrorCodes.GENERIC.value
error_code(e) ==
    IF e.exc \in ChatbotExceptions THEN <<"code", e.exc>>
    ELSE IF e.exc = "Timeout" THEN <<"code", "TIMEOUT">>
    ELSE <<"code", "GENERIC">>

\* dialog_360.py:114: f"Desculpe, ocorreu um erro ... mais tarde.\nErro {error_code}."
error_message(code) == <<"Desculpe">> \o code \o <<".">>

\* a message posted to the user through 360dialog, and the HTTP response
\* of the API
Posted(text) == [to |-> "whatsapp", status |-> 200, text |-> text]
Responded(status, text) == [to |-> "http", status |-> status, text |-> text]

\* webhook.py:218-232: handle_exception posts the error message, logs the
\* error and raises it again
handle_exception(e) ==
    /\ calls' = Append(calls, Posted(error_message(error_code(e))))
    /\ debug_string' = debug_string \o <<"error">> \o e.message
    /\ pc' = "end"

\* chatbot.py:96-109: the error is logged and HTTPException(400, detail=str(e))
\* is raised, which FastAPI sends as the response
http_exception(e) ==
    /\ calls' = Append(calls, Responded(400, e.message))
    /\ debug_string' = debug_string \o <<"error">> \o e.message
    /\ pc' = "end"

ChannelStore == [data |-> mdata, ttl |-> mttl]

\* the memory call r of a caller: the store after it
Stores(r) == mdata' = r.data /\ mttl' = r.ttl

\* settings.wait_message, and the intro and disclaimer texts of the index
wait_message == <<"aguarde">>
IntroMessages == {<<>>, <<"intro">>}
disclaimer_message == <<"disclaimer">>

\* webhook.py:38-68: the message is a question, the intro message is sent
\* the first time and then the wait message
WebhookIntro ==
    /\ pc = "request"
    /\ cfg.channel = "webhook"
    /\ \E question \in {Return(<<"True">>), Return(<<"False">>),
                        Error("DialogConfigError", <<"config">>),
                        Error("WebhookError", <<"headers">>)},
          fault \in {"none", "read"} :
        IF question.kind = "raise"
        THEN handle_exception(question) /\ UNCHANGED <<mdata, mttl, answer, result>>
        ELSE IF question.text = <<"False">>
        THEN /\ pc' = "end"
             /\ UNCHANGED <<mdata, mttl, answer, result, calls, debug_string>>
        ELSE
        LET checked == check_sent("redis", ChannelStore, Key1, intro_field(Index1), fault)
        IN  IF checked.outcome.kind = "raise"
            THEN handle_exception(MemoryFailure)
                    /\ UNCHANGED <<mdata, mttl, answer, result>>
            ELSE /\ IF checked.outcome.value = Flag(FALSE)
                    THEN /\ Stores(set_sent("redis", ChannelStore, Key1,
                                            intro_field(Index1), "none"))
                         /\ calls' = calls \o <<Posted(<<"intro">>), Posted(wait_message)>>
                    ELSE /\ UNCHANGED <<mdata, mttl>>
                         /\ calls' = Append(calls, Posted(wait_message))
                 /\ pc' = "turn"
                 /\ UNCHANGED <<answer, result, debug_string>>

\* webhook.py:81-123: get_response gives the answer, which is posted, or
\* raises, and the exception is handled by its kind
WebhookTurn ==
    /\ pc = "turn"
    /\ cfg.channel = "webhook"
    /\ \E r \in TurnOutcomes :
        /\ result' = r
        /\ IF r.kind = "raise"
           THEN handle_exception(r) /\ UNCHANGED answer
           ELSE /\ calls' = Append(calls, Posted(r.text))
                /\ answer' = r.text
                /\ pc' = "disclaimer"
                /\ UNCHANGED debug_string
    /\ UNCHANGED <<mdata, mttl>>

\* webhook.py:90-101: the disclaimer is sent the first time
WebhookDisclaimer ==
    /\ pc = "disclaimer"
    /\ cfg.channel = "webhook"
    /\ \E fault \in {"none", "read"} :
        LET checked == check_sent("redis", ChannelStore, Key1,
                                  disclaimer_field(Index1), fault)
        IN  IF checked.outcome.kind = "raise"
            THEN handle_exception(MemoryFailure) /\ UNCHANGED <<mdata, mttl>>
            ELSE /\ IF checked.outcome.value = Flag(FALSE)
                    THEN /\ Stores(set_sent("redis", ChannelStore, Key1,
                                            disclaimer_field(Index1), "none"))
                         /\ calls' = Append(calls, Posted(disclaimer_message))
                    ELSE UNCHANGED <<mdata, mttl, calls>>
                 /\ pc' = "end"
                 /\ UNCHANGED debug_string
    /\ UNCHANGED <<answer, result>>

\* chatbot.py:36-60: get_response gives the answer or raises
ApiTurn ==
    /\ pc = "request"
    /\ cfg.channel = "api"
    /\ \E r \in TurnOutcomes :
        /\ result' = r
        /\ IF r.kind = "raise"
           THEN http_exception(r) /\ UNCHANGED answer
           ELSE /\ answer' = r.text
                /\ pc' = "intro"
                /\ UNCHANGED <<calls, debug_string>>
    /\ UNCHANGED <<mdata, mttl>>

\* chatbot.py:65-78: the first answer for an index starts with its prefix
ApiIntro ==
    /\ pc = "intro"
    /\ cfg.channel = "api"
    /\ \E message_prefix \in IntroMessages, fault \in {"none", "read"} :
        LET checked == check_sent("redis", ChannelStore, Key1, intro_field(Index1), fault)
        IN  IF checked.outcome.kind = "raise"
            THEN http_exception(MemoryFailure) /\ UNCHANGED <<mdata, mttl, answer>>
            ELSE /\ IF checked.outcome.value = Flag(FALSE)
                    THEN /\ Stores(set_sent("redis", ChannelStore, Key1,
                                            intro_field(Index1), "none"))
                         /\ answer' = IF message_prefix # <<>>
                                      THEN message_prefix \o <<"n", "n">> \o answer
                                      ELSE answer
                    ELSE UNCHANGED <<mdata, mttl, answer>>
                 /\ pc' = "disclaimer"
                 /\ UNCHANGED <<calls, debug_string>>
    /\ UNCHANGED result

\* chatbot.py:80-95: the first answer ends with the disclaimer, and the
\* answer is the response
ApiDisclaimer ==
    /\ pc = "disclaimer"
    /\ cfg.channel = "api"
    /\ \E fault \in {"none", "read"} :
        LET checked == check_sent("redis", ChannelStore, Key1,
                                  disclaimer_field(Index1), fault)
        IN  IF checked.outcome.kind = "raise"
            THEN http_exception(MemoryFailure) /\ UNCHANGED <<mdata, mttl, answer>>
            ELSE /\ IF checked.outcome.value = Flag(FALSE)
                    THEN /\ Stores(set_sent("redis", ChannelStore, Key1,
                                            disclaimer_field(Index1), "none"))
                         /\ answer' = answer \o <<"n", "n">> \o disclaimer_message
                    ELSE UNCHANGED <<mdata, mttl, answer>>
                 /\ calls' = Append(calls, Responded(200, answer'))
                 /\ pc' = "end"
                 /\ UNCHANGED debug_string
    /\ UNCHANGED result

notChannel ==
    <<toolVars, faqVars, poolVars, sturn, mkind, mcall, cfg, user_message, memory,
      chat_history, i, prompt, step, done>>

InitChannel ==
    /\ cfg \in [channel : Channels]
    /\ pc = "request"
    /\ mkind = "redis"
    /\ \E st \in InitStores("redis") : mdata = st.data /\ mttl = st.ttl
    /\ mcall = None
    /\ user_message = <<"w">>
    /\ memory = None
    /\ chat_history = <<>>
    /\ i = 0
    /\ prompt = <<>>
    /\ step = None
    /\ done = FALSE
    /\ answer = <<>>
    /\ debug_string = <<>>
    /\ calls = <<>>
    /\ result = None
    /\ tcall = None
    /\ ToolsIdle
    /\ FaqIdle
    /\ PoolIdle

NextChannel ==
    /\ \/ WebhookIntro
       \/ WebhookTurn
       \/ WebhookDisclaimer
       \/ ApiTurn
       \/ ApiIntro
       \/ ApiDisclaimer
    /\ UNCHANGED notChannel

SpecChannel == InitChannel /\ [][NextChannel]_vars

----------------------------------------------------------------------------
(* Two webhook requests of one user processed at the same time             *)
(* (app/routers/webhook.py:29-101 and 152-169; process_request runs as a   *)
(* background task of each request).  Every call to the memory store and   *)
(* every message posted is one step; calls is what the user is sent.       *)

\* a text message, or the reply to the menu that selects an index
RequestTypes == {"text", "interactive"}

StartingRequest(type) == [pc |-> "start", type |-> type]

\* webhook.py:155-163 and 171-207: the selection of the menu sets the index
\* of the user; a text message reads it and, when there is none and the
\* chatbot has one index, sets it
RequestQuestion(t) ==
    /\ sturn[t].pc = "start"
    /\ IF sturn[t].type = "interactive"
       THEN /\ Stores(set_latest_user_index("redis", ChannelStore, Key1, Index1, "none"))
            /\ sturn' = [sturn EXCEPT ![t].pc = "post_intro"]
       ELSE /\ IF get_latest_user_index("redis", ChannelStore, Key1, "none").outcome
                    = Returns(None)
               THEN Stores(set_latest_user_index("redis", ChannelStore, Key1, Index1, "none"))
               ELSE UNCHANGED <<mdata, mttl>>
            /\ sturn' = [sturn EXCEPT ![t].pc = "check_intro"]
    /\ UNCHANGED calls

\* webhook.py:47-53: check_intro_message_sent(...) is False
RequestCheckIntro(t) ==
    /\ sturn[t].pc = "check_intro"
    /\ LET checked == check_sent("redis", ChannelStore, Key1, intro_field(Index1), "none")
       IN  sturn' = IF checked.outcome.value = Flag(FALSE)
                    THEN [sturn EXCEPT ![t].pc = "post_intro"]
                    ELSE [sturn EXCEPT ![t].pc = "turn"]
    /\ UNCHANGED <<mdata, mttl, calls>>

\* webhook.py:54-59 and 164-169: post_360_dialog_intro_message
RequestPostIntro(t) ==
    /\ sturn[t].pc = "post_intro"
    /\ calls' = Append(calls, Posted(<<"intro">>))
    /\ sturn' = [sturn EXCEPT ![t].pc = "set_intro"]
    /\ UNCHANGED <<mdata, mttl>>

\* webhook.py:60-62 and 170-173: set_intro_message_sent; the selection of
\* the menu is not a question and ends here
RequestSetIntro(t) ==
    /\ sturn[t].pc = "set_intro"
    /\ Stores(set_sent("redis", ChannelStore, Key1, intro_field(Index1), "none"))
    /\ sturn' = [sturn EXCEPT ![t].pc = IF sturn[t].type = "interactive"
                                        THEN "end" ELSE "turn"]
    /\ UNCHANGED calls

\* webhook.py:63-89 and 102-123: the wait message, get_response, and the
\* answer or the error message
RequestTurn(t) ==
    /\ sturn[t].pc = "turn"
    /\ \E r \in TurnOutcomes :
        IF r.kind = "raise"
        THEN /\ calls' = calls \o <<Posted(wait_message),
                                    Posted(error_message(error_code(r)))>>
             /\ sturn' = [sturn EXCEPT ![t].pc = "end"]
        ELSE /\ calls' = calls \o <<Posted(wait_message), Posted(r.text)>>
             /\ sturn' = [sturn EXCEPT ![t].pc = "check_disclaimer"]
    /\ UNCHANGED <<mdata, mttl>>

\* webhook.py:90-95: check_disclaimer_sent(...) is False
RequestCheckDisclaimer(t) ==
    /\ sturn[t].pc = "check_disclaimer"
    /\ LET checked == check_sent("redis", ChannelStore, Key1,
                                 disclaimer_field(Index1), "none")
       IN  sturn' = IF checked.outcome.value = Flag(FALSE)
                    THEN [sturn EXCEPT ![t].pc = "post_disclaimer"]
                    ELSE [sturn EXCEPT ![t].pc = "end"]
    /\ UNCHANGED <<mdata, mttl, calls>>

\* webhook.py:96-98: post_360_dialog_disclaimer_message
RequestPostDisclaimer(t) ==
    /\ sturn[t].pc = "post_disclaimer"
    /\ calls' = Append(calls, Posted(disclaimer_message))
    /\ sturn' = [sturn EXCEPT ![t].pc = "set_disclaimer"]
    /\ UNCHANGED <<mdata, mttl>>

\* webhook.py:99-101: set_disclaimer_sent
RequestSetDisclaimer(t) ==
    /\ sturn[t].pc = "set_disclaimer"
    /\ Stores(set_sent("redis", ChannelStore, Key1, disclaimer_field(Index1), "none"))
    /\ sturn' = [sturn EXCEPT ![t].pc = "end"]
    /\ UNCHANGED calls

notRequests ==
    <<toolVars, faqVars, poolVars, mkind, mcall, cfg, user_message, memory,
      chat_history, pc, i, prompt, step, done, answer, debug_string, result>>

\* a user who was sent neither message yet, with or without a selected index
InitRequests ==
    /\ mkind = "redis"
    /\ \E st \in {EmptyStore, [data |-> Stored3("redis").data, ttl |-> Stored3("redis").ttl]} :
            mdata = st.data /\ mttl = st.ttl
    /\ mcall = None
    /\ sturn \in [ConcurrentTurns -> {StartingRequest(type) : type \in RequestTypes}]
    /\ info_list = <<>>
    /\ remaining_tokens = 0
    /\ max_workers = 0
    /\ futures = <<>>
    /\ answers = <<>>
    /\ taken = 0
    /\ ppc = "idle"
    /\ tcall = None
    /\ ToolsIdle
    /\ FaqIdle
    /\ TurnIdle

NextRequests ==
    \E t \in ConcurrentTurns :
        /\ \/ RequestQuestion(t)
           \/ RequestCheckIntro(t)
           \/ RequestPostIntro(t)
           \/ RequestSetIntro(t)
           \/ RequestTurn(t)
           \/ RequestCheckDisclaimer(t)
           \/ RequestPostDisclaimer(t)
           \/ RequestSetDisclaimer(t)
        /\ UNCHANGED notRequests

SpecRequests == InitRequests /\ [][NextRequests]_vars

----------------------------------------------------------------------------
(* Properties of retry_request_with_timeout and of the search tools *)

AllTimeouts(log) == \A k \in 1..Len(log) : log[k].kind = "timeout"

\* C6: retry_request_with_timeout issues at most max_retries requests; as long
\* as every request so far timed out and fewer than max_retries were made it
\* goes on; Timeout is raised only when max_retries requests were made and all
\* of them timed out; a response is returned by the attempt that obtained it,
\* which is the last request made.
RetryAtMostMaxRetries ==
    /\ Len(requests) <= max_retries
    /\ (rresult = Timeout) =>
           (Len(requests) = max_retries /\ AllTimeouts(requests))
    /\ (ValidMethod(tcall.request_method) /\ AllTimeouts(requests)
            /\ Len(requests) < max_retries) => rresult = None
    /\ (rresult.kind = "response") =>
           (requests # <<>> /\ requests[Len(requests)] = rresult)

\* the Timeout is raised after max_retries timed-out requests
RetryRaisedTimeout ==
    /\ rresult = Timeout
    /\ Len(requests) = max_retries
    /\ AllTimeouts(requests)

\* C7: only a timed-out request is followed by another one; another transport
\* error is raised by the attempt it happened in, and a response with an error
\* status is returned unchanged by the attempt that obtained it.
RetryOnlyOnTimeout ==
    /\ \A k \in 1..(Len(requests) - 1) : requests[k].kind = "timeout"
    /\ (requests # <<>> /\ requests[Len(requests)].kind = "error") =>
           rresult = ConnectionError
    /\ (requests # <<>> /\ requests[Len(requests)].kind = "response"
            /\ requests[Len(requests)].status \in ErrorStatuses) =>
           rresult = requests[Len(requests)]

\* a 500 response of the first attempt was returned
RetryReturnedErrorStatus ==
    /\ Len(requests) = 1
    /\ rresult.kind = "response"
    /\ rresult.status = 500

SearchToolEnded == tcall.tool \in {"NSX", "SENSE"} /\ tresult # None

\* C8: for both search tools, a 403 response of the search service raises
\* NSXAuthenticationError and a response with any other error status raises
\* NSXSearchError; no text is returned.
SearchErrorKinds ==
    (SearchToolEnded /\ rresult.kind = "response" /\ ~ok(rresult)) =>
        tresult = (IF rresult.status = 403
                   THEN Raise("NSXAuthenticationError")
                   ELSE Raise("NSXSearchError"))

\* the documents the tool looked at are an empty list
NoDocuments ==
    /\ rresult.kind = "response"
    /\ ok(rresult)
    /\ Len(ranked_docs(rresult.body, tcall.bm25_only)) = 0

\* the QA answer carries the marker, in lower or in upper case
MarkedUnanswerable ==
    /\ qareq.kind = "response"
    /\ qareq.status = 200
    /\ \E k \in 1..Len(qareq.pred_answer) : qareq.pred_answer[k] \in {"u", "U"}

\* C9: a search tool that ends with no usable result (no document, or a QA
\* answer with the marker in any letter case) returns the exhausted sentinel
\* when searches_left = 0 and the try-again sentinel when searches_left > 0,
\* and in every case one of the two.
SentinelBySearchesLeft ==
    (SearchToolEnded /\ (NoDocuments \/ MarkedUnanswerable)) =>
        /\ tresult.kind = "return"
        /\ tresult.text \in {unanswerable_search, answer_not_found}
        /\ (tcall.searches_left = 0) => tresult.text = unanswerable_search
        /\ (tcall.searches_left > 0) => tresult.text = answer_not_found

\* the synthesis tool got an upper-case marker with no search left
SentinelForUpperCaseMarker ==
    /\ SearchToolEnded
    /\ tcall.tool = "SENSE"
    /\ tcall.searches_left = 0
    /\ qareq.kind = "response" /\ qareq.status = 200
    /\ contains(qareq.pred_answer, "U")
    /\ tresult = Return(unanswerable_search)

----------------------------------------------------------------------------
(* Properties of the FAQ tool *)

\* C10: within one turn no FAQ key is recorded twice in used_faq, and a lookup
\* that starts when a key is already in used_faq never returns the canned
\* answer of that key.
FaqKeyNeverReused ==
    /\ \A a, b \in 1..Len(used_faq) : a # b => used_faq[a] # used_faq[b]
    /\ \A t \in Tasks : \A q \in Questions :
          (ftask[t].pc = "done" /\ in_list(q, ftask[t].used_at_start)) =>
              ftask[t].result # Return(faq_answer(q))

----------------------------------------------------------------------------
(* Properties of one turn of ChatHandler.get_response *)

\* the moderation service flagged the text
flagged(m) == m.kind = "response" /\ m.status = 200 /\ m.flagged

\* the calls of the turn to a service, for a purpose
CallsTo(service, purpose) ==
    {k \in 1..Len(calls) : calls[k].service = service /\ calls[k].purpose = purpose}

MessageFlagged == \E k \in CallsTo("moderation", "message") : flagged(calls[k].reply)
AnswerFlagged == \E k \in CallsTo("moderation", "answer") : flagged(calls[k].reply)

SearchServices == {"nsx_score", "nsx_search", "multidocqa"}

TurnReturned == pc = "end" /\ result.kind = "return"

\* C1: a turn whose user message is flagged by the moderation check returns
\* the fixed refusal text, and makes no call to the completion service nor to
\* a search service (FAQ ranking, document search, synthesis).
HarmfulMessageRefused ==
    MessageFlagged =>
        /\ pc = "end"
        /\ result = Return(Refusal)
        /\ \A k \in 1..Len(calls) :
              calls[k].service \notin SearchServices \cup {"completion"}

\* a flagged message was refused
HarmfulMessageSeen == MessageFlagged /\ pc = "end" /\ Len(calls) = 1

\* C2, as stated: whenever the loop reached a Finish action, the text returned
\* by get_response is the action text of that action, stripped.
FinishAnswerReturned ==
    (TurnReturned /\ done) => result.text = strip(step.action_text)

\* C2, amended: whenever the loop reached a Finish action and the turn returns,
\* it returns the fixed refusal if the moderation check flagged the answer;
\* otherwise the stripped action text of that action, alone when return_debug
\* is off and after the debug trace when it is on.
FinishAnswerReturnedUnlessFlagged ==
    (TurnReturned /\ done) =>
        /\ is_finish(step.action_type)
        /\ answer = strip(step.action_text)
        /\ result.text = IF AnswerFlagged THEN Refusal
                         ELSE IF cfg.return_debug
                         THEN debug_answer(debug_string, strip(step.action_text))
                         ELSE strip(step.action_text)

\* a Finish action with surrounding whitespace, after a search, was returned
FinishAfterSearchReturned ==
    /\ TurnReturned /\ done
    /\ i = 2
    /\ CallsTo("nsx_search", "search") # {}
    /\ step.action_text # strip(step.action_text)
    /\ result = Return(strip(step.action_text))

ForcedCalls == CallsTo("completion", "forced")

LoopPurposes == {"reason", "action", "action_input", "faq"}

\* C3: the forced-conclusion call is issued at most once per turn and never
\* in a turn that reached Finish; once the loop has ended without Finish it
\* has been issued exactly once, after every call of the iterations, and the
\* answer of the turn is its output.
ForcedFinishExactlyOnce ==
    /\ Cardinality(ForcedCalls) <= 1
    /\ done => ForcedCalls = {}
    /\ \A k \in ForcedCalls : \A j \in 1..Len(calls) :
          (calls[j].service \in SearchServices
              \/ (calls[j].service = "completion" /\ calls[j].purpose \in LoopPurposes))
              => j < k
    /\ (pc \in {"moderate", "save"} /\ ~done) =>
          /\ Cardinality(ForcedCalls) = 1
          /\ \A k \in ForcedCalls : calls[k].reply = Return(answer)
    /\ (TurnReturned /\ ForcedCalls # {}) =>
          \A k \in ForcedCalls :
              /\ calls[k].reply = Return(answer)
              /\ ~AnswerFlagged => result.text = returned_text(cfg, debug_string, answer)

RECURSIVE count(_, _)
\* text.count(tok)
count(text, tok) ==
    IF text = <<>> THEN 0
    ELSE (IF Head(text) = tok THEN 1 ELSE 0) + count(Tail(text), tok)

\* every iteration ran and was kept, and the forced conclusion was returned
ForcedFinishAfterAllIterations ==
    /\ TurnReturned /\ ~done
    /\ i = max_num_reasoning
    /\ count(prompt, "P") = max_num_reasoning
    /\ Cardinality(ForcedCalls) = 1
    /\ result = Return(answer)

\* C4: when the prompt with the new block counts exactly max_tokens_prompt
\* tokens the block is kept and, if an iteration is left, the next one runs;
\* when it counts max_tokens_prompt + 1 tokens (or more) the loop is left
\* without Finish, the block is dropped and the conclusion is forced.
BudgetBoundary ==
    [][pc = "observed" =>
        LET total_tokens == get_num_tokens(prompt) + get_num_tokens(iteration_string(step))
        IN  /\ total_tokens <= max_tokens_prompt =>
                /\ prompt' = prompt \o iteration_string(step)
                /\ i < max_num_reasoning => (pc' = "reason" /\ i' = i + 1)
            /\ total_tokens >= max_tokens_prompt + 1 =>
                /\ prompt' = prompt
                /\ pc' = "forced" /\ ~done'
                /\ i' = i]_vars

\* a block filled the budget exactly and the next iteration started
BlockAtCeilingKept ==
    /\ pc = "reason"
    /\ i = 2
    /\ get_num_tokens(prompt) = max_tokens_prompt

\* C5, as stated: a turn that returns the 'message too long' text has made no
\* call to any service.
TooLongWithoutAnyCall ==
    (pc = "end" /\ result = Return(TooLong)) => calls = <<>>

PreflightServices == {"moderation", "memory", "db"}

\* C5, amended: a turn whose initial prompt is above max_tokens_prompt returns
\* the 'message too long' text without entering the loop; the calls it made
\* are the ones before the guard (moderation of the message, retrieval of the
\* history, its summary when it is above max_tokens_chat_history, the domain
\* of the index), and none goes to the loop's completion or search requests.
TooLongBeforeLoop ==
    /\ (pc \notin {"start", "memory", "prompt", "end"}
            \/ (pc = "end" /\ i > 0)) =>
          get_num_tokens(initial_prompt(chat_history, user_message)) <= max_tokens_prompt
    /\ (pc = "end" /\ prompt # <<>>
            /\ get_num_tokens(initial_prompt(chat_history, user_message))
                    > max_tokens_prompt) =>
          /\ result = Return(TooLong)
          /\ i = 0
    /\ (pc = "end" /\ result = Return(TooLong)) =>
          /\ i = 0
          /\ \A k \in 1..Len(calls) :
                \/ calls[k].service \in PreflightServices
                \/ calls[k].service = "completion" /\ calls[k].purpose = "summary"
          /\ CallsTo("moderation", "answer") = {}

\* a message too long with its history was turned down after the summary call
TooLongAfterSummary ==
    /\ pc = "end" /\ result = Return(TooLong)
    /\ CallsTo("completion", "summary") # {}
    /\ get_num_tokens(user_message) <= max_tokens_prompt - 4


----------------------------------------------------------------------------
(* Properties of the observation of an iteration *)

\* the requests the step being taken sends
Sent == SubSeq(calls', Len(calls) + 1, Len(calls'))

SentTo(sent, service, purpose) ==
    \E k \in 1..Len(sent) : sent[k].service = service /\ sent[k].purpose = purpose

\* the FAQ lookup of the step reports "irrespondível": the ranking fails, or
\* the reply of the selection matches no question
FaqUnanswerable(sent) ==
    /\ Len(sent) >= 1
    /\ sent[1].service = "nsx_score"
    /\ IF sent[1].reply.kind = "raise" THEN TRUE
       ELSE /\ Len(sent) >= 2
            /\ sent[2].reply.kind = "return"
            /\ faq_match(sent[2].reply.text,
                         get_top_faq_questions(sent[1].reply.scores)) = "none"

\* C13: get_observation asks the FAQ first unless the FAQ is disabled; the
\* document search or the synthesis is used only when the FAQ is disabled or
\* reported "irrespondível", and then exactly the one use_nsx_sense selects;
\* the tool returned with the observation is the one that produced it.
ObservationDispatch ==
    [][pc = "observe" =>
        LET sent == Sent
            faq == SentTo(sent, "nsx_score", "faq")
            search == SentTo(sent, "nsx_search", "search")
            sense == SentTo(sent, "nsx_search", "sense")
            synthesis == SentTo(sent, "multidocqa", "answer_from_docs")
            unanswerable == cfg.disable_faq \/ FaqUnanswerable(sent)
        IN  /\ faq <=> ~cfg.disable_faq
            /\ faq => sent[1].service = "nsx_score"
            /\ cfg.disable_faq => ~SentTo(sent, "completion", "faq")
            /\ (search \/ sense) <=> unanswerable
            /\ search => ~cfg.use_nsx_sense /\ ~sense /\ ~synthesis
            /\ sense => cfg.use_nsx_sense /\ ~search
            /\ synthesis => sense
            /\ pc' = "observed" =>
                /\ step'.tool = "FAQ" <=> ~(search \/ sense)
                /\ step'.tool = "NSX" <=> search
                /\ step'.tool = "SENSE" <=> sense
      ]_vars

\* the FAQ had no answer and the synthesis produced the observation
SenseAfterFaq ==
    /\ pc = "observed"
    /\ step.tool = "SENSE"
    /\ CallsTo("nsx_score", "faq") # {}
    /\ CallsTo("multidocqa", "answer_from_docs") # {}

----------------------------------------------------------------------------
(* Properties of the moderation of the answer and of failing services *)

\* an answer moderation that did not flag the answer, before call k
ModeratedBefore(k) ==
    \E j \in CallsTo("moderation", "answer") :
        j < k /\ calls[j].reply.kind = "response" /\ calls[j].reply.status = 200
              /\ ~calls[j].reply.flagged

Persisted == CallsTo("memory", "save_history") \cup CallsTo("db", "upsert_chat_history")

\* C14: the answer of the loop is moderated before it is returned or
\* persisted: an answer is saved to the session memory, written to the
\* chat-history database or returned only after a moderation that did not
\* flag it; when it is flagged the turn returns the refusal text and the
\* answer is neither returned nor saved nor written to the database.
FlaggedAnswerDiscarded ==
    /\ \A k \in Persisted : ModeratedBefore(k)
    /\ memory = Stored(interaction(user_message, answer)) => Persisted # {}
    /\ (/\ pc = "end"
        /\ result.kind = "return"
        /\ CallsTo("completion", "reason") # {}
        /\ result.text # Refusal) => ModeratedBefore(Len(calls) + 1)
    /\ AnswerFlagged =>
        /\ pc = "end"
        /\ result = Return(Refusal)
        /\ Persisted = {}
        /\ memory # Stored(interaction(user_message, answer))

\* the forced conclusion of a handler with memory was flagged
ForcedAnswerFlagged ==
    /\ AnswerFlagged
    /\ ~cfg.disable_memory
    /\ ForcedCalls # {}
    /\ answer # <<>>

\* C15: is_the_message_harmful returns true only for a response that flags
\* the text; when the moderation service cannot be reached it raises, the
\* turn ends with that error after that request, and the text is treated
\* neither as safe (the turn does not go on) nor as harmful (no refusal).
ModerationUnreachableRaises ==
    /\ \A m \in ModerationOutcomes :
        /\ is_the_message_harmful(m) = [kind |-> "return", value |-> TRUE] <=> flagged(m)
        /\ m.kind = "error" => is_the_message_harmful(m).kind = "raise"
    /\ \A k \in 1..Len(calls) :
        calls[k].service = "moderation" =>
            /\ calls[k].reply.kind = "error" =>
                /\ k = Len(calls)
                /\ pc = "end"
                /\ result = ConnectionError
            /\ (pc = "end" /\ k = Len(calls) /\ result = Return(Refusal))
                => flagged(calls[k].reply)

\* the moderation of an answer could not be reached
AnswerModerationUnreachable ==
    /\ pc = "end"
    /\ CallsTo("moderation", "answer") # {}
    /\ calls[Len(calls)].service = "moderation"
    /\ calls[Len(calls)].reply.kind = "error"

\* a completion or search request that timed out after its retries, or a
\* search request the service rejected the API key of
ConnectivityFailure(c) ==
    \/ c.service \in {"completion", "nsx_search"} /\ c.reply = Timeout
    \/ c.service = "nsx_search" /\ c.reply.kind = "response" /\ c.reply.status = 403

\* C19: a completion or search request of the turn that ends in a Timeout,
\* or a search request rejected with 403, ends the turn with an error (the
\* Timeout itself for a Timeout): it is the last request of the turn, no
\* observation is put in its place and no answer is produced or returned.
ConnectivityFailurePropagates ==
    /\ [](\A k \in 1..Len(calls) :
            ConnectivityFailure(calls[k]) =>
                /\ k = Len(calls)
                /\ pc = "end"
                /\ result.kind = "raise"
                /\ calls[k].reply = Timeout => result = Timeout)
    /\ [][(\E k \in 1..Len(Sent) : ConnectivityFailure(Sent[k]))
            => UNCHANGED <<step, prompt, answer, debug_string, memory, i>>]_vars

\* the search of the second iteration timed out
SecondSearchTimedOut ==
    /\ pc = "end"
    /\ i = 2
    /\ result = Timeout
    /\ calls[Len(calls)].service = "nsx_search"
    /\ Cardinality(CallsTo("nsx_search", "search")) = 2

----------------------------------------------------------------------------
(* Properties of search_information_parallel *)

\* the task whose answer is the last one written under a description of an item
LastTask(a, name) ==
    CHOOSE t \in 1..Len(futures) :
        /\ flat_list(info_list)[t] = [index |-> a, name |-> name]
        /\ \A u \in (t + 1)..Len(futures) :
              flat_list(info_list)[u] # [index |-> a, name |-> name]

Descriptions(a) == {info_list[a][b] : b \in 1..Len(info_list[a])}

\* the array with the result of every task, none blanked
AllResults ==
    [a \in 1..Len(info_list) |->
        [name \in Descriptions(a) |-> futures[LastTask(a, name)].outcome.text]]

OverBudgetBlankedInPlace ==
    /\ [](ppc = "returned" =>
            /\ Len(answers) = Len(info_list)
            /\ \A a \in 1..Len(info_list) : DOMAIN answers[a] = DOMAIN AllResults[a])
    /\ [][taken' = taken + 1 =>
            LET task == flat_list(info_list)[taken']
                text == futures[taken'].outcome.text
                included == [answers EXCEPT ![task.index] = (task.name :> text) @@ @]
            IN  /\ \A a \in 1..Len(answers) :
                      DOMAIN answers'[a]
                          = DOMAIN answers[a]
                              \cup (IF a = task.index THEN {task.name} ELSE {})
                /\ answers'[task.index][task.name]
                      = IF result_tokens(included) > remaining_tokens THEN <<>> ELSE text
                /\ \A a \in 1..Len(answers) : \A name \in DOMAIN answers[a] :
                      (a # task.index \/ name # task.name)
                          => answers'[a][name] = answers[a][name]
       ]_vars

\* an array is returned in which a result that fits was kept after an earlier
\* one was blanked
KeptAfterBlanked ==
    /\ ppc = "returned"
    /\ \E t \in 1..Len(futures) : \E u \in (t + 1)..Len(futures) :
          LET first == flat_list(info_list)[t]
              later == flat_list(info_list)[u]
          IN  /\ first # later
              /\ answers[first.index][first.name] = <<>>
              /\ answers[later.index][later.name] = futures[u].outcome.text

----------------------------------------------------------------------------
(* Properties of the summarization of a stored history *)

----------------------------------------------------------------------------
(* Properties of the memory handlers *)

\* the call just made, if one was made
Called(op) == mcall # None /\ mcall.op = op
CalledKey == user_id(mcall.user, mcall.chatbot_id)

\* C11: after a save_history that succeeded with the dump of a history of
\* no interactions and a summary S, retrieve_history for the same user,
\* chatbot and index returns a history of no interactions and summary S,
\* with either handler and whatever was stored before.
SaveThenRetrieve ==
    \A x \in StoreSummaries :
        (/\ Called("save_history")
         /\ mcall.outcome = Returns(None)
         /\ mcall.arg = dumps([interactions |-> <<>>, summary |-> x]))
        => retrieve_history(mkind, Store, CalledKey, mcall.index, "none").outcome
              = Returns(Dict([interactions |-> <<>>, summary |-> x]))

\* a summary with a quote replaced a stored history of one interaction
SavedOverStoredHistory ==
    /\ Called("save_history")
    /\ mcall.outcome = Returns(None)
    /\ mcall.arg = dumps([interactions |-> <<>>, summary |-> <<"w", "q">>])
    /\ mcall.before.data[CalledKey][mcall.index] # Absent


\* C16: every operation of both handlers turns a failure of the underlying
\* store into MemoryHandlerError: a call that meets a fault raises, and
\* whatever a call raises is MemoryHandlerError.
FailuresBecomeMemoryHandlerError ==
    mcall # None =>
        /\ mcall.met => mcall.outcome.kind = "raise"
        /\ mcall.outcome.kind = "raise" => mcall.outcome = MemoryHandlerError

\* the history of the call made, as retrieve_history gave it before the call
PreviousHistory ==
    retrieve_history(mkind, mcall.before, CalledKey, mcall.index, "none").outcome

\* C17: save_interaction on a working store appends: the stored
\* interactions are the previous ones, in order, followed by the new text,
\* the summary is unchanged, both start empty when no history existed, and
\* a store with expiry has the timer of the record at its full value.
SaveInteractionAppends ==
    (/\ Called("save_interaction")
     /\ mcall.fault = "none"
     /\ PreviousHistory.kind = "return")
    => LET previous == IF PreviousHistory.value = None THEN empty_history
                       ELSE PreviousHistory.value.v
           interactions == IF "interactions" \in DOMAIN previous
                           THEN previous.interactions ELSE <<>>
       IN  /\ mcall.outcome = Returns(None)
           /\ retrieve_history(mkind, Store, CalledKey, mcall.index, "none").outcome
                 = Returns(Dict([interactions |-> Append(interactions, mcall.arg),
                                 summary |-> previous.summary]))
           /\ mkind = "redis" => mttl[CalledKey] = expiration_time_in_seconds

\* C18: after reset_chatbot(user, chatbot_id) nothing of that user is
\* left (histories, flags, latest index, configs) and what is stored for
\* every other (user, chatbot_id) pair is as it was.
ResetChatbotFrame ==
    (Called("reset_chatbot") /\ mcall.outcome = Returns(None))
    => /\ \A f \in Fields : mdata[CalledKey][f] = Absent
       /\ \A p \in Pairs :
            (p.user # mcall.user \/ p.chatbot_id # mcall.chatbot_id)
            => mdata[KeyOf(p)] = mcall.before.data[KeyOf(p)]

----------------------------------------------------------------------------
(* Properties of save_interaction called by two turns at the same time *)

WritersFinished == \A t \in ConcurrentTurns : sturn[t].pc \in {"end", "raised"}

\* the call whose HSET was the last one
LastWriter == CHOOSE t \in ConcurrentTurns : sturn[t].seq = Written

\* what a call sent: the history it read and then its interaction
Sends(t) ==
    [sturn[t].chat_history EXCEPT
        !.interactions = Append(@, writer_interaction(t))]

\* C21: when two calls that append to one session have finished, the stored
\* value is the one the later writer sent, the history it read and then its
\* own interaction; the history it read is the one the other call read or
\* the one the other call sent, so the stored value is no mix of the two.
LastWriteWins ==
    (WritersFinished /\ Written > 0) =>
        /\ mdata[Key1][Index1] = Str(dumps(Sends(LastWriter)))
        /\ \A t \in ConcurrentTurns \ {LastWriter} :
              sturn[t].seq > 0 =>
                  sturn[LastWriter].chat_history \in {sturn[t].chat_history, Sends(t)}

\* both calls have appended and the interaction of the first is not stored
InteractionLost ==
    /\ WritersFinished
    /\ Written = 2
    /\ loads(mdata[Key1][Index1].v).value.interactions
         = Append(sturn[LastWriter].chat_history.interactions,
                  writer_interaction(LastWriter))
    /\ sturn[1].chat_history = sturn[2].chat_history

----------------------------------------------------------------------------
(* Properties of the tasks of one fan-out *)

----------------------------------------------------------------------------
(* Properties of ChatHandlerFunctionCall.find_answer *)

Purposes == [k \in 1..Len(calls) |-> calls[k].purpose]

FindAnswerReturned == pc = "end" /\ result.kind = "return"

\* C24: find_answer makes one call of the completion service, then at most
\* one fan-out of searches and after it at most one more call of the
\* completion service, and nothing else; when the first reply has no
\* function call its text is returned with no search; otherwise an answer is
\* returned only after the one fan-out and the one synthesis call, and it is
\* the text of that call, stripped.
OneSearchRoundOneSynthesis ==
    /\ Purposes \in {<<>>, <<"function_call">>, <<"function_call", "fan_out">>,
                     <<"function_call", "fan_out", "synthesis">>}
    /\ (Len(calls) >= 1 /\ call_model(calls[1].reply).kind = "return"
           /\ calls[1].reply.function_call = None)
          => /\ Len(calls) = 1
             /\ FindAnswerReturned
             /\ result.text = calls[1].reply.text
    /\ (FindAnswerReturned /\ calls[1].reply.function_call # None)
          => /\ Len(calls) = 3
             /\ result.text = strip(calls[3].reply.text)

\* an answer came from the synthesis call after a search with blanked results
AnswerAfterSearchRound ==
    /\ FindAnswerReturned
    /\ Len(calls) = 3
    /\ calls[3].reply.text # result.text
    /\ \E a \in 1..Len(answers) : \E name \in DOMAIN answers[a] : answers[a][name] = <<>>

----------------------------------------------------------------------------
(* Properties of what the user is sent when a turn fails *)

\* the errors a request can end with
RequestErrors ==
    TurnErrors \cup {MemoryFailure, Error("DialogConfigError", <<"config">>),
                     Error("WebhookError", <<"headers">>)}

\* the fixed apology, with the code of an error and nothing else
Apologies == {error_message(error_code(e)) : e \in RequestErrors}

\* C25: when a turn fails, what the user is sent for it, the error message
\* of the webhook or the error response of the API, is the fixed apology
\* with at most an error code, never the text of the exception.
OnlyApologyDelivered ==
    (pc = "end" /\ result.kind = "raise") =>
        /\ Len(calls) >= 1
        /\ calls[Len(calls)].text \in Apologies
        /\ \A k \in 1..Len(calls) : calls[k].text # result.message

----------------------------------------------------------------------------
(* Properties of the running prompt and of the repair calls *)

\* the block of the last iteration, with its observation
LastBlock ==
    <<"P">> \o step.thought \o <<"A">> \o step.action_type \o <<"X">>
        \o step.action_input \o <<"O">> \o step.observation \o <<"n">>

EndsWith(text, tail) ==
    /\ Len(text) >= Len(tail)
    /\ SubSeq(text, Len(text) - Len(tail) + 1, Len(text)) = tail

RepairOnlyWhenMalformed ==
    [][(pc = "reason" /\ pc' \in {"observe", "moderate"}) =>
        LET sent == SubSeq(calls', Len(calls) + 1, Len(calls'))
            purposes == {sent[k].purpose : k \in 1..Len(sent)}
            first == sent[1].reply
        IN  first.kind = "return" =>
              LET has_action == contains(first.text, "a")
                  has_text == contains(first.text, "t") \/ contains(first.text, "T")
                  label == CHOOSE k \in 1..Len(first.text) : first.text[k] \in {"t", "T"}
              IN  /\ ("action" \in purposes) <=> ~has_action
                  /\ (has_action /\ ~has_text) => "action_input" \in purposes
                  /\ (has_action /\ has_text) =>
                        /\ Len(sent) = 1
                        /\ step'.action_text
                              = SubSeq(first.text, label + 1, Len(first.text))
      ]_vars

----------------------------------------------------------------------------
(* Properties of a failing FAQ ranking request *)

\* the ranking request of the step being taken failed
RankingFailed(sent) ==
    /\ Len(sent) >= 1
    /\ sent[1].service = "nsx_score"
    /\ sent[1].reply.kind = "raise"

\* C28: when the ranking request of the FAQ lookup fails, the lookup reports
\* "irrespondível" instead of raising: no completion is asked to select a
\* question, used_faq is unchanged, and the next request of the same step is
\* the document search or the synthesis search that use_nsx_sense selects,
\* whose outcome is the outcome of the step.
RankingFailureAbsorbed ==
    [][(pc = "observe" /\ RankingFailed(Sent)) =>
        LET sent == Sent
        IN  /\ Len(sent) >= 2
            /\ sent[2].service = "nsx_search"
            /\ sent[2].purpose = IF cfg.use_nsx_sense THEN "sense" ELSE "search"
            /\ ~SentTo(sent, "completion", "faq")
            /\ used_faq' = used_faq
            /\ pc' = "observed" =>
                    step'.tool = IF cfg.use_nsx_sense THEN "SENSE" ELSE "NSX"
            /\ pc' = "end" =>
                    IF sent[Len(sent)].service = "multidocqa" THEN TRUE
                    ELSE IF sent[Len(sent)].reply.kind = "raise" THEN TRUE
                    ELSE ~ok(sent[Len(sent)].reply)
      ]_vars

\* the ranking failed and the document search produced the observation
SearchAfterFailedRanking ==
    /\ pc = "observed"
    /\ step.tool = "NSX"
    /\ \E k \in CallsTo("nsx_score", "faq") :
            /\ calls[k].reply.kind = "raise"
            /\ k < Len(calls)
            /\ calls[k + 1].service = "nsx_search"
            /\ calls[k + 1].reply.kind # "raise"

----------------------------------------------------------------------------
(* Properties of a failing summarization *)

\* the positions of the log where the summary request failed
FailedSummaries ==
    {k \in CallsTo("completion", "summary") : calls[k].reply.kind = "raise"}

\* C29: a summary request that fails ends the turn with its error: it is the
\* last request of the turn, so no reasoning call follows it, and the step
\* that makes it leaves the stored history as it was, which is the oversized
\* history the turn found.
SummaryFailureEndsTurn ==
    /\ [](FailedSummaries # {} =>
            /\ pc = "end"
            /\ result = calls[Len(calls)].reply
            /\ FailedSummaries = {Len(calls)}
            /\ CallsTo("completion", "reason") = {}
            /\ memory # None)
    /\ [][(pc = "memory" /\ Len(calls') > Len(calls)
             /\ calls'[Len(calls')].purpose = "summary"
             /\ calls'[Len(calls')].reply.kind = "raise") =>
            /\ memory' = memory
            /\ pc' = "end"
            /\ result' = calls'[Len(calls')].reply
         ]_vars

\* the summary request failed and the turn is over with the history in store
SummaryFailed ==
    /\ pc = "end"
    /\ FailedSummaries # {}
    /\ result.kind = "raise"
    /\ memory # None
    /\ get_num_tokens(memory.history) > max_tokens_chat_history

----------------------------------------------------------------------------
(* Properties of the history in the prompt of a turn that summarized *)

----------------------------------------------------------------------------
(* Properties of the expiry of the stored keys *)

\* C31: with the store that expires keys, an operation never creates or
\* leaves a key without expiry: when the key of the call was absent or had
\* a timer before the call and exists after it, it has a timer of at most
\* expiration_time_in_seconds.
EveryKeyExpires ==
    (/\ mcall # None
     /\ mkind = "redis"
     /\ \/ ~exists(mcall.before, CalledKey)
        \/ mcall.before.ttl[CalledKey] > 0)
    => (exists(Store, CalledKey)
            => mttl[CalledKey] \in 1..expiration_time_in_seconds)

----------------------------------------------------------------------------
(* Properties of the end of a turn *)

\* the turn went past the dev-mode commands
InTurn == ~(cfg.dev_mode /\ user_message[1] = "#")

\* C32: when every call returns or raises, the turn ends.  It runs at most
\* max_num_reasoning iterations, each with one reasoning call and at most
\* one observation from the tools; once the budget trips the conclusion is
\* forced in the same iteration; after the loop no iteration runs; and the
\* turn ends with the answer of Finish or of the forced conclusion, with
\* the refusal or the 'too long' text, or with an error.
TurnEndsWithinCap ==
    /\ <>(pc = "end")
    /\ [](/\ i <= max_num_reasoning
          /\ Cardinality(CallsTo("completion", "reason")) <= i
          /\ count(debug_string, "O") <= i
          /\ (pc = "end" /\ InTurn) =>
                IF result.kind = "raise" THEN TRUE
                ELSE \/ result.text \in {Refusal, TooLong}
                     \/ /\ result.text = returned_text(cfg, debug_string, answer)
                        /\ done \/ ForcedCalls # {})
    /\ [][/\ (pc = "observed"
                /\ over_budget(get_num_tokens(prompt \o iteration_string(step))))
             => (pc' = "forced" /\ i' = i)
          /\ pc \in {"forced", "moderate", "save"}
             => (pc' \in {"moderate", "save", "end"} /\ i' = i /\ prompt' = prompt)
         ]_vars

\* the last iteration ran, its block was kept, and the turn ended
EndedAtTheCap ==
    /\ pc = "end"
    /\ i = max_num_reasoning
    /\ Cardinality(CallsTo("completion", "reason")) = max_num_reasoning
    /\ count(prompt, "O") = max_num_reasoning
    /\ ForcedCalls # {}

----------------------------------------------------------------------------
(* Properties of a moderation request answered with an error status *)

\* the moderation requests of the log that got a response that is not ok
ModerationRejected ==
    {k \in 1..Len(calls) :
        /\ calls[k].service = "moderation"
        /\ IF calls[k].reply.kind = "response" THEN ~ok(calls[k].reply) ELSE FALSE}

----------------------------------------------------------------------------
(* Properties of the messages sent once *)

\* how many times the user was sent the text
TimesPosted(text) == Cardinality({k \in 1..Len(calls) : calls[k] = Posted(text)})

\* C34: while the session is neither reset nor expired, the user is sent
\* the intro message of the index at most once and the disclaimer at most
\* once, whatever requests are processed and however they interleave.
OneTimeMessagesOnce ==
    /\ TimesPosted(<<"intro">>) <= 1
    /\ TimesPosted(disclaimer_message) <= 1

----------------------------------------------------------------------------
(* Properties of the size of the running prompt *)

\* C35: once the loop is entered the running prompt never counts more than
\* max_tokens_prompt tokens: the loop is entered only with a prompt within
\* the ceiling, a block is appended only if the prompt with it is within
\* the ceiling, and a prompt above the ceiling exists only in a turn that
\* returned the 'too long' text without any reasoning call.
PromptWithinCeiling ==
    /\ i >= 1 => get_num_tokens(prompt) <= max_tokens_prompt
    /\ pc \in {"reason", "observe", "observed", "forced", "moderate", "save"}
          => get_num_tokens(prompt) <= max_tokens_prompt
    /\ get_num_tokens(prompt) > max_tokens_prompt =>
          /\ pc = "end"
          /\ result = Return(TooLong)
          /\ i = 0
          /\ CallsTo("completion", "reason") = {}

\* a block that did not fit was left out of a prompt that had room for less
BlockOverCeilingDropped ==
    /\ pc = "forced"
    /\ i = 2
    /\ get_num_tokens(prompt) <= max_tokens_prompt
    /\ get_num_tokens(prompt \o iteration_string(step)) > max_tokens_prompt
    /\ count(prompt, "O") = 1

----------------------------------------------------------------------------
(* Properties of the searches left that the loop passes to the tools *)

\* C36: the searches_left of a dispatch is never negative; an empty search
\* of iteration i is answered with the sentinel that invites another
\* search only if an iteration i + 1 exists, and with the sentinel of the
\* exhausted search at the last iteration.
SentinelTellsTheTruth ==
    (pc = "observed" /\ step.tool \in {"NSX", "SENSE"}) =>
        /\ max_num_reasoning - i - 1 >= 0
        /\ step.observation = answer_not_found => i + 1 <= max_num_reasoning
        /\ (i = max_num_reasoning
                /\ step.observation \in {answer_not_found, unanswerable_search})
              => step.observation = unanswerable_search

----------------------------------------------------------------------------
(* Properties of the sessions of different users *)

\* what the read operations return for a pair on a store that works: the
\* histories, the latest index and the flags
Reads(kind, st, p) ==
    [index \in Indexes |->
        << retrieve_history(kind, st, KeyOf(p), index, "none").outcome,
           check_sent(kind, st, KeyOf(p), intro_field(index), "none").outcome,
           check_sent(kind, st, KeyOf(p), disclaimer_field(index), "none").outcome,
           get_latest_user_index(kind, st, KeyOf(p), "none").outcome >>]

\* C37: an operation for one (user, chatbot_id) pair changes nothing of
\* what the reads return for any other pair, and two different pairs never
\* have the same key in the store.
SessionIsolation ==
    mcall # None =>
        \A q \in Pairs :
            (q.user # mcall.user \/ q.chatbot_id # mcall.chatbot_id) =>
                /\ KeyOf(q) # CalledKey
                /\ Reads(mkind, Store, q) = Reads(mkind, mcall.before, q)

----------------------------------------------------------------------------
(* Properties of the two handlers side by side *)

\* the stores the same operations leave behind with either handler
SameStores ==
    {[json |-> EmptyStore, redis |-> EmptyStore]} \cup
    {[json |-> [data |-> s.json.data, ttl |-> s.json.ttl],
      redis |-> [data |-> s.redis.data, ttl |-> s.redis.ttl]] :
        s \in {[json |-> Stored1("json"), redis |-> Stored1("redis")],
               [json |-> Stored2("json"), redis |-> Stored2("redis")],
               [json |-> Stored3("json"), redis |-> Stored3("redis")],
               [json |-> Stored4("json"), redis |-> Stored4("redis")],
               [json |-> Stored5("json"), redis |-> Stored5("redis")],
               [json |-> Stored6("json"), redis |-> Stored6("redis")]}}

\* the operations both handlers have
SharedOps ==
    {"save_interaction", "save_history", "retrieve_history", "clear_history",
     "set_latest_user_index", "get_latest_user_index", "set_intro_message_sent",
     "check_intro_message_sent", "set_disclaimer_sent", "check_disclaimer_sent"}

\* the call c made with the handler of the kind on the store st that works
Apply(kind, st, c) ==
    LET key == user_id(c.user, c.chatbot_id)
    IN  CASE c.op = "save_interaction" ->
                save_interaction(kind, st, key, c.index, c.arg, "none")
          [] c.op = "save_history" -> save_history(kind, st, key, c.index, c.arg, "none")
          [] c.op = "retrieve_history" -> retrieve_history(kind, st, key, c.index, "none")
          [] c.op = "clear_history" -> clear_history(kind, st, key, c.index, "none")
          [] c.op = "set_latest_user_index" ->
                set_latest_user_index(kind, st, key, c.index, "none")
          [] c.op = "get_latest_user_index" -> get_latest_user_index(kind, st, key, "none")
          [] c.op = "set_intro_message_sent" ->
                set_sent(kind, st, key, intro_field(c.index), "none")
          [] c.op = "check_intro_message_sent" ->
                check_sent(kind, st, key, intro_field(c.index), "none")
          [] c.op = "set_disclaimer_sent" ->
                set_sent(kind, st, key, disclaimer_field(c.index), "none")
          [] c.op = "check_disclaimer_sent" ->
                check_sent(kind, st, key, disclaimer_field(c.index), "none")

\* C38: after the same operations, an operation on stores that work has the
\* same outcome with JSONMemoryHandler and with RedisMemoryHandler: the same
\* value returned, or an error with both.
HandlersAgree ==
    (mcall # None /\ mcall.fault = "none" /\ mcall.op \in SharedOps) =>
        \A s \in SameStores :
            s[mkind] = mcall.before =>
                Apply("json", s.json, mcall).outcome
                    = Apply("redis", s.redis, mcall).outcome

----------------------------------------------------------------------------
(* Properties of what a turn leaves in the session history *)

\* the turn returned an answer of the loop or of the forced conclusion
AnswerReturned ==
    /\ pc = "end"
    /\ result.kind = "return"
    /\ result.text \notin {Refusal, TooLong}

----------------------------------------------------------------------------
(* Properties of the dev-mode commands on the handler every user shares *)

\* C40: a turn leaves the completion model and the search tool of the one
\* handler that serves every user as they were, so that a command of one
\* user changes nothing for the turns of another, and a dev-mode message
\* that starts with '#' is answered with a text.
DevCommandsStayLocal ==
    /\ [][cfg'.model = cfg.model /\ cfg'.use_nsx_sense = cfg.use_nsx_sense]_vars
    /\ []((pc = "end" /\ ~InTurn) => result.kind = "return")

====
